---- MODULE Spec2Model ----
(***************************************************************************)
(* A model of the data-lake API: the query and metrics views              *)
(* (src/transactions/views.py, pagination.py), the permission views and    *)
(* the permission class (auth_views.py, permissions.py, models.py), the    *)
(* access-log middleware (middleware.py) and the Kafka consumer that       *)
(* writes the partition files (src/kafka_stream_consumer_to_file.py).      *)
(*                                                                         *)
(* Conventions.                                                            *)
(*  - A nullable value is a set with at most one element: {} is null /     *)
(*    NaN / NaT, {v} is the value v.                                       *)
(*  - A string that takes part in a SQL text is a sequence of tokens, so   *)
(*    that a quote character inside a value is visible to the SQL parser.  *)
(*  - Floats are modelled by integers (whole numbers), plus the two        *)
(*    non-finite values float() also accepts ("inf", "nan").  On whole     *)
(*    numbers float addition is exact and round(x, 2) returns x.           *)
(*  - A record keeps the fields the views read.  TransactionSerializer     *)
(*    raises on a page whose frame lacks one of its required fields.       *)
(***************************************************************************)
EXTENDS Integers, Sequences, FiniteSets, TLC

VARIABLES
    lake,      \* data_lake/: folder name -> sequence of partition files
    tables,    \* MariaDB schema datalake: table name -> table
    dbUp,      \* whether the MariaDB server accepts connections
    req,       \* the request being served: {} or {request}
    resp,      \* endpoint -> {} or {response}, for the request being served
    clock,     \* the wall clock, in minutes (datetime.now())
    scan,      \* the load a request is in the middle of: {} or {scan}
    perms,     \* the DataTablePermission rows
    log,       \* the APIAccessLog rows, in the order they were created
    consumer   \* the Kafka consumer process: {} or {its local variables}

vars == <<lake, tables, dbUp, req, resp, clock, scan, perms, log, consumer>>

\* ---------------------------------------------------------------- values

Null == {}
Some(x) == {x}
The(s) == CHOOSE x \in s : TRUE

\* No load is under way, no permission row, no log row, no consumer.
Quiet == scan = {} /\ perms = {} /\ log = <<>> /\ consumer = {}

\* String values, as token sequences.  ONEIL holds one quote character;
\* INJ is the text  card','cash  (two quotes and a comma inside the value).
CARD == <<"card">>
CASH == <<"cash">>
ONEIL == <<"o", "'", "neil">>
INJ == <<"card", "'", ",", "'", "cash">>
FR == <<"FR">>
US == <<"US">>
BOOKS == <<"books">>
TOYS == <<"toys">>
COMPLETED == <<"completed">>
FAILED == <<"failed">>

RECURSIVE SeqSum(_)
SeqSum(s) == IF s = <<>> THEN 0 ELSE Head(s) + SeqSum(Tail(s))

RECURSIVE Flatten(_)
\* The concatenation of a sequence of sequences.
Flatten(ss) == IF ss = <<>> THEN <<>> ELSE Head(ss) \o Flatten(Tail(ss))

RECURSIVE JoinWith(_, _)
\* sep.join(parts), on token sequences.
JoinWith(sep, parts) ==
    IF parts = <<>> THEN <<>>
    ELSE IF Len(parts) = 1 THEN Head(parts)
    ELSE Head(parts) \o sep \o JoinWith(sep, Tail(parts))

Range(s) == {s[i] : i \in DOMAIN s}

\* ------------------------------------------------------------------ rows

\* One record of a DataFrame.  Every field is nullable.
Row(id, ts, pm, co, cat, st, amt, rating, user, ttype, prod, qty) ==
    [TRANSACTION_ID |-> id, TIMESTAMP |-> ts, PAYMENT_METHOD |-> pm,
     LOCATION_COUNTRY |-> co, PRODUCT_CATEGORY |-> cat, STATUS |-> st,
     AMOUNT_USD |-> amt, CUSTOMER_RATING |-> rating, USER_ID |-> user,
     TRANSACTION_TYPE |-> ttype, PRODUCT_ID |-> prod, QUANTITY |-> qty]

AllColumns ==
    {"TRANSACTION_ID", "TIMESTAMP", "PAYMENT_METHOD", "LOCATION_COUNTRY",
     "PRODUCT_CATEGORY", "STATUS", "AMOUNT_USD", "CUSTOMER_RATING", "USER_ID",
     "TRANSACTION_TYPE", "PRODUCT_ID", "QUANTITY"}

\* --------------------------------------------------------------- requests

MembershipKinds == {"payment_method", "country", "product_category", "status"}
AmountKinds == {"amount_gt", "amount_lt", "amount_eq"}
RatingKinds == {"rating_gt", "rating_lt", "rating_eq"}
NumericKinds == AmountKinds \cup RatingKinds
FilterKinds == MembershipKinds \cup NumericKinds
PageKinds == {"page", "page_size"}
MetricKinds == {"minutes", "limit"}
ParamKinds == FilterKinds \cup PageKinds \cup MetricKinds

\* request.query_params with no key at all.
NoParams == [k \in ParamKinds |-> Null]

\* `not query_params`: a QueryDict is falsy when it holds no key.
HasParams(qp) == \E k \in ParamKinds : qp[k] # Null

\* The DataFrame column a filter key reads.
ColumnOf(kind) ==
    CASE kind = "payment_method" -> "PAYMENT_METHOD"
      [] kind = "country" -> "LOCATION_COUNTRY"
      [] kind = "product_category" -> "PRODUCT_CATEGORY"
      [] kind = "status" -> "STATUS"
      [] kind \in AmountKinds -> "AMOUNT_USD"
      [] kind \in RatingKinds -> "CUSTOMER_RATING"

\* ------------------------------------------------------------------ float

Num(n) == [k |-> "num", v |-> n]
Inf == [k |-> "inf", v |-> 0]
NaN == [k |-> "nan", v |-> 0]

\* float(s): the parsed value, or Null when float() raises ValueError.
ParseFloat(raw) ==
    CASE raw = "1" -> Some(Num(1))
      [] raw = "3" -> Some(Num(3))
      [] raw = "3.0" -> Some(Num(3))
      [] raw = "5" -> Some(Num(5))
      [] raw = "inf" -> Some(Inf)
      [] raw = "nan" -> Some(NaN)
      [] OTHER -> Null

\* f"{x}" of a float: the text placed in the SQL query.
FormatFloat(f) ==
    CASE f.k = "inf" -> "inf"
      [] f.k = "nan" -> "nan"
      [] f.v = 1 -> "1.0"
      [] f.v = 3 -> "3.0"
      [] f.v = 5 -> "5.0"

\* Comparisons of a number a with a float, as IEEE 754 (and pandas) make them.
GtF(a, f) == f.k = "num" /\ a > f.v
LtF(a, f) == \/ f.k = "num" /\ a < f.v
             \/ f.k = "inf"
EqF(a, f) == f.k = "num" /\ a = f.v

CmpF(op, a, f) ==
    CASE op = ">" -> GtF(a, f)
      [] op = "<" -> LtF(a, f)
      [] op = "=" -> EqF(a, f)

OpOf(kind) ==
    CASE kind \in {"amount_gt", "rating_gt"} -> ">"
      [] kind \in {"amount_lt", "rating_lt"} -> "<"
      [] kind \in {"amount_eq", "rating_eq"} -> "="

\* ---------------------------------------------------- in-memory filtering

\* Series.isin(values): a null cell is in no list.
IsIn(cell, values) == \E x \in cell : x \in Range(values)

\* A comparison that lets a NaN cell through, as ~(Series <= x) would.
SeriesCmpNullPasses(op, cell, f) == cell = Null \/ \E a \in cell : CmpF(op, a, f)

\* Series > x, Series < x, Series == x: a NaN cell compares False.
SeriesCmp(op, cell, f) == \E a \in cell : CmpF(op, a, f)

\* Series.notna() & (Series <op> x)
NotNaAndCmp(op, cell, f) == cell # Null /\ SeriesCmp(op, cell, f)

\* One membership step of apply_filters.
MembershipStep(df, qp, kind) ==
    IF qp[kind] # Null
    THEN SelectSeq(df, LAMBDA r : IsIn(r[ColumnOf(kind)], The(qp[kind])))
    ELSE df

\* An amount step that selects nothing when float() raises.
AmountStepRejects(df, qp, kind) ==
    IF qp[kind] = Null THEN df
    ELSE IF ParseFloat(The(qp[kind])) = Null THEN <<>>
    ELSE SelectSeq(df, LAMBDA r :
             \E a \in r["AMOUNT_USD"] : CmpF(OpOf(kind), a, The(ParseFloat(The(qp[kind])))))

\* One amount step of apply_filters: try float(...), filter; except: pass.
AmountStep(df, qp, kind) ==
    IF qp[kind] # Null /\ ParseFloat(The(qp[kind])) # Null
    THEN SelectSeq(df, LAMBDA r :
             SeriesCmp(OpOf(kind), r["AMOUNT_USD"], The(ParseFloat(The(qp[kind])))))
    ELSE df

\* One rating step of apply_filters.
RatingStep(df, qp, kind) ==
    IF qp[kind] # Null /\ ParseFloat(The(qp[kind])) # Null
    THEN SelectSeq(df, LAMBDA r :
             NotNaAndCmp(OpOf(kind), r["CUSTOMER_RATING"], The(ParseFloat(The(qp[kind])))))
    ELSE df

\* BaseParquetView.apply_filters
apply_filters(df, qp) ==
    IF ~HasParams(qp) THEN df
    ELSE
    LET d1 == MembershipStep(df, qp, "payment_method")
        d2 == MembershipStep(d1, qp, "country")
        d3 == MembershipStep(d2, qp, "product_category")
        d4 == MembershipStep(d3, qp, "status")
        d5 == AmountStep(d4, qp, "amount_gt")
        d6 == AmountStep(d5, qp, "amount_lt")
        d7 == AmountStep(d6, qp, "amount_eq")
        d8 == RatingStep(d7, qp, "rating_gt")
        d9 == RatingStep(d8, qp, "rating_lt")
    IN  RatingStep(d9, qp, "rating_eq")

\* ------------------------------------------------------ building the query

\* ', '.join([f"'{v}'" for v in values])
QuotedList(values) ==
    JoinWith(<<",">>, [i \in DOMAIN values |-> <<"'">> \o values[i] \o <<"'">>])

\* f"{COLUMN} IN ({...})", or no condition when the key is absent.
MembershipCondition(qp, kind) ==
    IF qp[kind] # Null
    THEN << <<ColumnOf(kind), "IN", "(">> \o QuotedList(The(qp[kind])) \o <<")">> >>
    ELSE <<>>

\* f"AMOUNT_USD > {amount_gt}", or no condition when float() raises.
AmountCondition(qp, kind) ==
    IF qp[kind] # Null /\ ParseFloat(The(qp[kind])) # Null
    THEN << <<"AMOUNT_USD", OpOf(kind), FormatFloat(The(ParseFloat(The(qp[kind]))))>> >>
    ELSE <<>>

\* f"CUSTOMER_RATING > {rating_gt} AND CUSTOMER_RATING IS NOT NULL"
RatingCondition(qp, kind) ==
    IF qp[kind] # Null /\ ParseFloat(The(qp[kind])) # Null
    THEN << <<"CUSTOMER_RATING", OpOf(kind), FormatFloat(The(ParseFloat(The(qp[kind])))),
              "AND", "CUSTOMER_RATING", "IS NOT NULL">> >>
    ELSE <<>>

\* BaseDatabaseTableView.build_sql_query: the query text, as a token sequence.
build_sql_query(table_name, qp) ==
    LET query == <<"SELECT * FROM", table_name>>
        conditions ==
            MembershipCondition(qp, "payment_method")
            \o MembershipCondition(qp, "country")
            \o MembershipCondition(qp, "product_category")
            \o MembershipCondition(qp, "status")
            \o AmountCondition(qp, "amount_gt")
            \o AmountCondition(qp, "amount_lt")
            \o AmountCondition(qp, "amount_eq")
            \o RatingCondition(qp, "rating_gt")
            \o RatingCondition(qp, "rating_lt")
            \o RatingCondition(qp, "rating_eq")
    IN  IF ~HasParams(qp) THEN query
        ELSE IF conditions # <<>>
             THEN query \o <<"WHERE">> \o JoinWith(<<"AND">>, conditions)
             ELSE query

\* ------------------------------------------------ MariaDB: running a query

\* What the server answers: the selected rows, or an error (ok = FALSE).
SqlError == [ok |-> FALSE, atoms |-> <<>>]

\* A numeric literal of the SQL text; any other word (inf, nan) is read as a
\* column name, which no table has.
SqlNumber(tok) ==
    CASE tok = "1.0" -> Some(1)
      [] tok = "3.0" -> Some(3)
      [] tok = "5.0" -> Some(5)
      [] OTHER -> Null

RECURSIVE LitEnd(_, _)
\* The position of the first quote at or after i: the end of a string literal
\* whose text starts at i; 0 when the literal is not closed.
LitEnd(q, i) ==
    IF i > Len(q) THEN 0
    ELSE IF q[i] = "'" THEN i
    ELSE LitEnd(q, i + 1)

RECURSIVE ParseInList(_, _, _)
\* 'lit' , 'lit' ... ) starting at i: the literals and the position after ")".
ParseInList(q, i, acc) ==
    IF i > Len(q) \/ q[i] # "'" THEN [ok |-> FALSE, lits |-> {}, next |-> 0]
    ELSE LET j == LitEnd(q, i + 1) IN
         IF j = 0 \/ j + 1 > Len(q) THEN [ok |-> FALSE, lits |-> {}, next |-> 0]
         ELSE LET lits == acc \cup {SubSeq(q, i + 1, j - 1)} IN
              CASE q[j + 1] = "," -> ParseInList(q, j + 2, lits)
                [] q[j + 1] = ")" -> [ok |-> TRUE, lits |-> lits, next |-> j + 2]
                [] OTHER -> [ok |-> FALSE, lits |-> {}, next |-> 0]

RECURSIVE ParseConditions(_, _, _, _)
\* The conditions of a WHERE clause starting at i, joined by AND.
ParseConditions(q, i, cols, acc) ==
    IF i + 1 > Len(q) \/ q[i] \notin cols THEN SqlError
    ELSE
    LET col == q[i]
        op == q[i + 1]
        more(atom, next) ==
            IF next > Len(q) THEN [ok |-> TRUE, atoms |-> Append(acc, atom)]
            ELSE IF q[next] = "AND"
                 THEN ParseConditions(q, next + 1, cols, Append(acc, atom))
                 ELSE SqlError
    IN  CASE op = "IN" ->
                IF i + 2 > Len(q) \/ q[i + 2] # "(" THEN SqlError
                ELSE LET l == ParseInList(q, i + 3, {}) IN
                     IF ~l.ok THEN SqlError
                     ELSE more([col |-> col, op |-> "IN", lits |-> l.lits, num |-> 0],
                               l.next)
          [] op \in {">", "<", "="} ->
                IF i + 2 > Len(q) \/ SqlNumber(q[i + 2]) = Null THEN SqlError
                ELSE more([col |-> col, op |-> op, lits |-> {},
                           num |-> The(SqlNumber(q[i + 2]))], i + 3)
          [] op = "IS NOT NULL" ->
                more([col |-> col, op |-> op, lits |-> {}, num |-> 0], i + 2)
          [] OTHER -> SqlError

\* The parse of SELECT * FROM <table> [WHERE <conditions>] against a table
\* with columns cols.
ParseQuery(q, cols) ==
    IF Len(q) < 2 \/ q[1] # "SELECT * FROM" THEN SqlError
    ELSE IF Len(q) = 2 THEN [ok |-> TRUE, atoms |-> <<>>]
    ELSE IF q[3] # "WHERE" THEN SqlError
    ELSE ParseConditions(q, 4, cols, <<>>)

\* A condition on a row, in SQL's three-valued logic: a comparison with NULL
\* is not TRUE.
SqlHolds(atom, r) ==
    CASE atom.op = "IN" -> \E x \in r[atom.col] : x \in atom.lits
      [] atom.op = ">" -> \E a \in r[atom.col] : a > atom.num
      [] atom.op = "<" -> \E a \in r[atom.col] : a < atom.num
      [] atom.op = "=" -> \E a \in r[atom.col] : a = atom.num
      [] atom.op = "IS NOT NULL" -> r[atom.col] # Null

\* The rows a parsed query selects.
SqlSelect(atoms, rows) ==
    SelectSeq(rows, LAMBDA r : \A i \in DOMAIN atoms : SqlHolds(atoms[i], r))

\* ------------------------------------------------------------- DataFrames

\* A DataFrame: its columns and its rows; a row holds null in a column the
\* frame does not have.
DataFrame(cols, rows) == [cols |-> cols, rows |-> rows]

\* pd.DataFrame()
EmptyDF == DataFrame({}, <<>>)

\* df.empty: some axis has length 0.
IsEmpty(df) == df.rows = <<>> \/ df.cols = {}

\* pd.concat(frames, ignore_index=True): the union of the columns, the rows
\* in order.
Concat(frames) ==
    DataFrame(UNION {frames[i].cols : i \in DOMAIN frames},
              Flatten([i \in DOMAIN frames |-> frames[i].rows]))

\* Whether a must precede b in a descending sort on TIMESTAMP (NaT last).
Precedes(a, b) ==
    /\ a.TIMESTAMP # Null
    /\ \/ b.TIMESTAMP = Null
       \/ The(a.TIMESTAMP) > The(b.TIMESTAMP)

IsSortedDesc(rows) ==
    \A i, j \in DOMAIN rows : i < j => ~Precedes(rows[j], rows[i])

\* df.sort_values('TIMESTAMP', ascending=False): the default kind is
\* quicksort, which promises no order among equal keys, so every descending
\* arrangement of the rows is a possible result.
sort_values(rows) ==
    {s \in {[i \in DOMAIN rows |-> rows[p[i]]] : p \in Permutations(DOMAIN rows)} :
        IsSortedDesc(s)}

\* ---------------------------------------------------------------- storage

Folders == {"f1", "f2"}
TableNames == {"t1", "t2"}

\* A partition file: pd.read_parquet raises when ok is FALSE.
File(ok, cols, rows) == [ok |-> ok, cols |-> cols, rows |-> rows]

\* A loop that gives up on every source once one of them cannot be read.
read_all_or_nothing(sources) ==
    IF \E i \in DOMAIN sources : ~sources[i].ok THEN <<>> ELSE sources

\* for source in sources: try: read(source) except Exception: continue
read_each(sources) == SelectSeq(sources, LAMBDA f : f.ok)

\* BaseParquetView.load_parquet_files: the frames it may return.
load_parquet_files(folder_name) ==
    IF lake[folder_name] = Null THEN {EmptyDF}
    ELSE
    LET parquet_files == The(lake[folder_name])
        dataframes == read_each(parquet_files)
        combined_df == Concat(dataframes)
    IN  IF parquet_files = <<>> \/ dataframes = <<>> THEN {EmptyDF}
        ELSE IF "TIMESTAMP" \in combined_df.cols
             THEN {DataFrame(combined_df.cols, s) : s \in sort_values(combined_df.rows)}
             ELSE {combined_df}

\* pd.read_sql(query, connection) on a table: the frame, or Null when it
\* raises (server down, no such table, table unreadable, SQL error).
read_sql(query, table_name) ==
    IF ~dbUp \/ table_name \notin TableNames THEN Null
    ELSE IF tables[table_name] = Null THEN Null
    ELSE LET t == The(tables[table_name])
             parsed == ParseQuery(query, t.cols)
         IN  IF ~t.ok \/ ~parsed.ok THEN Null
             ELSE Some(DataFrame(t.cols, SqlSelect(parsed.atoms, t.rows)))

\* BaseDatabaseTableView.load_table_data: the frames it may return.
load_table_data(table_name, qp) ==
    LET query == build_sql_query(table_name, qp)
        got == read_sql(query, table_name)
    IN  IF got = Null THEN {EmptyDF}
        ELSE LET df == The(got) IN
             IF "TIMESTAMP" \in df.cols /\ ~IsEmpty(df)
             THEN {DataFrame(df.cols, s) : s \in sort_values(df.rows)}
             ELSE {df}

\* Whether apply_filters raises KeyError: a clause that is applied reads a
\* column the frame does not have.
FilterRaises(df, qp) ==
    /\ HasParams(qp)
    /\ \E kind \in FilterKinds :
          /\ qp[kind] # Null
          /\ kind \in NumericKinds => ParseFloat(The(qp[kind])) # Null
          /\ ColumnOf(kind) \notin df.cols

\* ------------------------------------------------------------- pagination

\* CustomTransactionPagination.page_size and .max_page_size
page_size == 10
max_page_size == 10

\* int(s): the parsed value, or Null when int() raises ValueError.
ParseInt(raw) ==
    CASE raw = "-1" -> Some(-1)
      [] raw = "0" -> Some(0)
      [] raw = "1" -> Some(1)
      [] raw = "2" -> Some(2)
      [] raw = "3" -> Some(3)
      [] raw = "4" -> Some(4)
      [] raw = "5" -> Some(5)
      [] raw = "10" -> Some(10)
      [] raw = "11" -> Some(11)
      [] OTHER -> Null

Min(a, b) == IF a < b THEN a ELSE b
CeilDiv(a, b) == (a + b - 1) \div b

\* A page size read without the cutoff.
get_page_size_uncapped(qp) ==
    IF qp["page_size"] = Null THEN page_size
    ELSE LET n == ParseInt(The(qp["page_size"])) IN
         IF n = Null THEN page_size
         ELSE IF The(n) <= 0 THEN page_size
         ELSE The(n)

\* PageNumberPagination.get_page_size:
\*   _positive_int(query_params['page_size'], strict=True, cutoff=max_page_size),
\*   and self.page_size when the key is missing or _positive_int raises
\*   ValueError (not an integer, negative, or zero).
get_page_size(qp) ==
    IF qp["page_size"] = Null THEN page_size
    ELSE LET n == ParseInt(The(qp["page_size"])) IN
         IF n = Null THEN page_size
         ELSE IF The(n) <= 0 THEN page_size
         ELSE Min(The(n), max_page_size)

\* A page count rounded down.
num_pages_floor(count, per_page) ==
    IF count = 0 THEN 1 ELSE (count \div per_page) + 1

\* django Paginator.num_pages, with allow_empty_first_page and no orphans:
\* ceil(max(1, count) / per_page).
num_pages(count, per_page) ==
    IF count = 0 THEN CeilDiv(1, per_page) ELSE CeilDiv(count, per_page)

\* get_page_number and Paginator.validate_number: the page number, or Null
\* when the page is invalid (InvalidPage, turned into NotFound).
page_number(qp, count, per_page) ==
    IF qp["page"] = Null THEN Some(1)
    ELSE IF The(qp["page"]) = "last" THEN Some(num_pages(count, per_page))
    ELSE LET n == ParseInt(The(qp["page"])) IN
         IF n = Null THEN Null
         ELSE IF The(n) < 1 \/ The(n) > num_pages(count, per_page) THEN Null
         ELSE n

\* Paginator.page(number).object_list: object_list[bottom:top]
page_items(list, number, per_page) ==
    LET bottom == (number - 1) * per_page
        top == Min(bottom + per_page, Len(list))
    IN  SubSeq(list, bottom + 1, top)

\* An offset that counts the current page in.
page_offset_one_off(current_page, size) == current_page * size

\* The offset of get_paginated_response.
page_offset(current_page, size) == (current_page - 1) * size

NoPagination ==
    [page |-> 0, page_size |-> 0, total_pages |-> 0, total_count |-> 0, offset |-> 0]

\* ---------------------------------------------------------------- responses

\* A response.  kind is "page" (get_paginated_response), "bare" (the
\* count-0 body returned for an empty frame) or "error".  all, loaded and
\* query are not sent: they record the list that was paginated, the rows the
\* loader returned and the SQL text that was run.
Response(status, kind, results, pagination, all, loaded, query) ==
    [status |-> status, kind |-> kind, results |-> results,
     pagination |-> pagination, all |-> all, loaded |-> loaded, query |-> query]

\* A NotFound answer for a source that holds nothing.
NotFoundResponse(loaded, query) ==
    Response(404, "error", <<>>, NoPagination, <<>>, loaded, query)

\* Response({'count': 0, 'next': None, 'previous': None, 'results': []})
BareResponse(loaded, query) ==
    Response(200, "bare", <<>>, NoPagination, <<>>, loaded, query)

\* Response({'error': ...}, status=HTTP_500_INTERNAL_SERVER_ERROR)
ErrorResponse(all, loaded, query) ==
    Response(500, "error", <<>>, NoPagination, all, loaded, query)

\* paginator.paginate_queryset(list, request) followed by
\* paginator.get_paginated_response(serializer.data); NotFound raised by
\* paginate_queryset is caught by the view's `except Exception`.
PaginatedResponse(list, qp, loaded, query) ==
    LET per_page == get_page_size(qp)
        number == page_number(qp, Len(list), per_page)
    IN  IF number = Null THEN ErrorResponse(list, loaded, query)
        ELSE Response(200, "page",
                 page_items(list, The(number), per_page),
                 [page |-> The(number),
                  page_size |-> get_page_size(qp),
                  total_pages |-> num_pages(Len(list), per_page),
                  total_count |-> Len(list),
                  offset |-> page_offset(The(number), get_page_size(qp))],
                 list, loaded, query)

\* The fields of TransactionSerializer without allow_null: serializing a
\* record that lacks one of these keys raises KeyError.
RequiredFields == AllColumns \ {"CUSTOMER_RATING"}

\* TransactionSerializer(page, many=True).data on the page of a response:
\* the response, or the error the view's `except Exception` turns it into.
Serialized(df, r) ==
    IF r.kind = "page" /\ r.results # <<>> /\ ~(RequiredFields \subseteq df.cols)
    THEN ErrorResponse(r.all, r.loaded, r.query)
    ELSE r

\* BaseParquetView.get, after load_parquet_files returned df.
ParquetResponse(df, qp) ==
    IF IsEmpty(df) THEN BareResponse(df.rows, <<>>)
    ELSE IF FilterRaises(df, qp) THEN ErrorResponse(<<>>, df.rows, <<>>)
    ELSE Serialized(df, PaginatedResponse(apply_filters(df.rows, qp), qp, df.rows, <<>>))

\* BaseDatabaseTableView.get, after load_table_data returned df.
TableResponse(df, qp, query) ==
    IF IsEmpty(df) THEN BareResponse(df.rows, query)
    ELSE Serialized(df, PaginatedResponse(df.rows, qp, df.rows, query))

Endpoints == {"parquet", "table", "recent", "users", "products", "catalog",
              "grant", "revoke", "other"}

\* A query string, sent to the endpoints in `to`: the parquet endpoint of
\* `folder` and / or the database endpoint of `table`.
Request(qp, to, folder, table) == [qp |-> qp, to |-> to, folder |-> folder, table |-> table]

NoResponses == [e \in Endpoints |-> Null]

\* ----------------------------------------------------------------- actions

\* GET /parquet/<folder>/ : BaseParquetView.get
ParquetGet(folder) ==
    /\ req # Null
    /\ "parquet" \in The(req).to
    /\ resp["parquet"] = Null
    /\ The(req).folder = folder
    /\ \E df \in load_parquet_files(folder) :
          resp' = [resp EXCEPT !["parquet"] = Some(ParquetResponse(df, The(req).qp))]
    /\ UNCHANGED <<lake, tables, dbUp, req, clock>>
    /\ UNCHANGED <<scan, perms, log, consumer>>

\* GET /db/<table>/ : BaseDatabaseTableView.get
TableGet(table) ==
    /\ req # Null
    /\ "table" \in The(req).to
    /\ resp["table"] = Null
    /\ The(req).table = table
    /\ \E df \in load_table_data(table, The(req).qp) :
          resp' = [resp EXCEPT !["table"] =
                      Some(TableResponse(df, The(req).qp,
                                         build_sql_query(table, The(req).qp)))]
    /\ UNCHANGED <<lake, tables, dbUp, req, clock>>
    /\ UNCHANGED <<scan, perms, log, consumer>>

\* The responses have been sent; the server waits for the next request.
Done ==
    /\ req # Null
    /\ \A e \in The(req).to : resp[e] # Null
    /\ req' = Null
    /\ resp' = [e \in Endpoints |-> Null]
    /\ UNCHANGED <<lake, tables, dbUp, clock>>
    /\ UNCHANGED <<scan, perms, log, consumer>>

\* ------------------------------------------------ inputs of the filter runs

MaxRows == 2

\* The rows filter requests are run on: every filtered column holds, in some
\* row, a value, another value and null; timestamps are distinct.
SampleRows ==
    {Row(1, Some(1), Some(CARD), Some(FR), Some(BOOKS), Some(COMPLETED), Some(5), Some(5),
         Some("u1"), Some("purchase"), Some("p1"), Some(1)),
     Row(2, Some(2), Some(CASH), Some(US), Some(TOYS), Some(FAILED), Some(1), Null,
         Some("u1"), Some("purchase"), Some("p1"), Some(1)),
     Row(3, Some(3), Some(ONEIL), Null, Some(BOOKS), Some(COMPLETED), Null, Some(1),
         Some("u1"), Some("purchase"), Some("p1"), Some(1)),
     Row(4, Some(4), Some(INJ), Some(FR), Null, Null, Some(3), Some(3),
         Some("u1"), Some("purchase"), Some("p1"), Some(1)),
     Row(5, Some(5), Null, Some(US), Some(TOYS), Some(COMPLETED), Null, Null,
         Some("u1"), Some("purchase"), Some("p1"), Some(1))}

\* The rows of a set, by increasing TRANSACTION_ID.
RECURSIVE ById(_)
ById(S) ==
    IF S = {} THEN <<>>
    ELSE LET first == CHOOSE r \in S : \A o \in S : r.TRANSACTION_ID <= o.TRANSACTION_ID
         IN  <<first>> \o ById(S \ {first})

Datasets(universe, n) == {ById(S) : S \in {T \in SUBSET universe : Cardinality(T) <= n}}

\* The lists a client sends for each membership key: one value, two
\* values, a value holding a quote, a value holding quotes and a comma.
ClientLists(kind) ==
    CASE kind = "payment_method" -> {<<CARD>>, <<CASH, CARD>>, <<ONEIL>>, <<INJ>>}
      [] kind = "country" -> {<<FR>>, <<FR, US>>}
      [] kind = "product_category" -> {<<BOOKS>>, <<TOYS, BOOKS>>}
      [] kind = "status" -> {<<COMPLETED>>, <<FAILED, COMPLETED>>}

\* What a client sends for a numeric key: numbers and texts float() rejects.
NumericRaws == {"3", "abc", "inf"}

\* The arguments a clause of a kind can carry.
ClauseArgs(kind) ==
    IF kind \in MembershipKinds THEN ClientLists(kind) ELSE NumericRaws

MaxClauses == 2

RECURSIVE ParamsUpTo(_)
\* The query strings with at most n filter clauses, of different kinds.
ParamsUpTo(n) ==
    IF n = 0 THEN {NoParams}
    ELSE LET fewer == ParamsUpTo(n - 1) IN
         fewer \cup
         UNION {{[pk[1] EXCEPT ![pk[2]] = Some(a)] : a \in ClauseArgs(pk[2])} :
                   pk \in {x \in fewer \X FilterKinds : x[1][x[2]] = Null}}

FilterParams == ParamsUpTo(MaxClauses)

\* A table of the datalake schema: reading it raises when ok is FALSE.
Table(ok, cols, rows) == [ok |-> ok, cols |-> cols, rows |-> rows]

\* ------------------------------------------------------ the filter runs

\* Folder f1 and table t1 hold the same rows.
InitFilter ==
    \E rows \in Datasets(SampleRows, MaxRows) :
        /\ lake = [f \in Folders |->
                      IF f = "f1" THEN Some(<<File(TRUE, AllColumns, rows)>>) ELSE Null]
        /\ tables = [t \in TableNames |->
                      IF t = "t1" THEN Some(Table(TRUE, AllColumns, rows)) ELSE Null]
        /\ dbUp = TRUE
        /\ req = Null
        /\ resp = NoResponses
        /\ clock = 0
        /\ Quiet

\* A client sends one query string to /parquet/f1/ and to /db/t1/.
ReceiveFilter ==
    /\ req = Null
    /\ \E qp \in FilterParams : req' = Some(Request(qp, {"parquet", "table"}, "f1", "t1"))
    /\ UNCHANGED <<lake, tables, dbUp, resp, clock>>
    /\ UNCHANGED <<scan, perms, log, consumer>>

NextFilter ==
    \/ ReceiveFilter
    \/ \E folder \in Folders : ParquetGet(folder)
    \/ \E table \in TableNames : TableGet(table)
    \/ Done

SpecFilter == InitFilter /\ [][NextFilter]_vars

\* ------------------------------------------------- properties: filtering

\* The rows held by the readable partition files of a folder.
FolderRows(folder) ==
    IF lake[folder] = Null THEN {}
    ELSE UNION {Range(f.rows) : f \in {g \in Range(The(lake[folder])) : g.ok}}

\* The rows held by a table.
TableRows(table) ==
    IF tables[table] = Null THEN {} ELSE Range(The(tables[table]).rows)

\* The query string of the request being served.
Qp == The(req).qp

\* A numeric clause whose argument float() accepts / rejects.
Parses(qp, kind) == qp[kind] # Null /\ ParseFloat(The(qp[kind])) # Null
Unparseable(qp, kind) == qp[kind] # Null /\ ParseFloat(The(qp[kind])) = Null

\* C1: when a folder and a table hold the same records, the records that
\* survive apply_filters are exactly the records the built query selects.
C1_BackendEquivalence ==
    (/\ req # Null
     /\ resp["parquet"] # Null
     /\ resp["table"] # Null
     /\ FolderRows(The(req).folder) = TableRows(The(req).table))
    => Range(The(resp["parquet"]).all) = Range(The(resp["table"]).all)

\* Two query strings with the same clause kinds: the same keys, membership
\* lists of the same length, numeric arguments that both parse or both do not.
SameClauseKinds(p, q) ==
    /\ \A k \in ParamKinds : (p[k] = Null) <=> (q[k] = Null)
    /\ \A k \in MembershipKinds : p[k] # Null => Len(The(p[k])) = Len(The(q[k]))
    /\ \A k \in NumericKinds : Parses(p, k) <=> Parses(q, k)

\* C2: the query text depends only on the clause kinds: every query string
\* with the same clause kinds as the one served yields the text that was run.
C2_QueryTextIgnoresValues ==
    (req # Null /\ resp["table"] # Null)
    => \A other \in FilterParams :
          SameClauseKinds(Qp, other)
          => build_sql_query(The(req).table, other) = The(resp["table"]).query

Without(qp, kind) == [qp EXCEPT ![kind] = Null]

\* What a response sends.
Sent(r) == [status |-> r.status, kind |-> r.kind, results |-> r.results,
            pagination |-> r.pagination]

\* C4: a numeric clause whose argument is not a number is dropped: the
\* request does not fail, and the answer is the answer to the same request
\* without that clause.
C4_UnparseableClauseDropped ==
    \A kind \in NumericKinds :
        (req # Null /\ Unparseable(Qp, kind))
        => /\ resp["parquet"] # Null
              => /\ The(resp["parquet"]).status = 200
                 /\ Sent(The(resp["parquet"])) =
                       Sent(ParquetResponse(
                           DataFrame(AllColumns, The(resp["parquet"]).loaded),
                           Without(Qp, kind)))
           /\ resp["table"] # Null
              => /\ The(resp["table"]).status = 200
                 /\ \E df \in load_table_data(The(req).table, Without(Qp, kind)) :
                       Sent(The(resp["table"])) =
                           Sent(TableResponse(df, Without(Qp, kind), <<>>))

\* C4 happens: both endpoints answered a request with amount_gt=abc and a
\* second clause, which removed some of the rows and kept others.
C4_Witness ==
    /\ req # Null
    /\ Unparseable(Qp, "amount_gt")
    /\ Qp["country"] # Null
    /\ \A e \in {"parquet", "table"} :
          /\ resp[e] # Null
          /\ The(resp[e]).results # <<>>
          /\ Len(The(resp[e]).results) < Cardinality(TableRows(The(req).table))

\* ------------------------------------------------------ the paging runs

MaxItems == 4

\* The i-th record of a paged folder or table.
PageRow(i) ==
    Row(i, Some(i), Some(IF i % 2 = 1 THEN CARD ELSE CASH), Some(FR), Some(BOOKS),
        Some(COMPLETED), Some(i), Some(3), Some("u1"), Some("purchase"), Some("p1"), Some(1))

\* What a client sends as page and as page_size; Null is the key left out.
PageRaws == {Null, Some("1"), Some("2"), Some("3"), Some("5"), Some("last"), Some("0"),
             Some("abc")}
PageSizeRaws == {Null, Some("1"), Some("2"), Some("3"), Some("11"), Some("0"), Some("-1"),
                 Some("abc")}

\* No filter, a filter some records pass, a filter no record passes.
PageFilters ==
    {NoParams,
     [NoParams EXCEPT !["payment_method"] = Some(<<CARD>>)],
     [NoParams EXCEPT !["status"] = Some(<<FAILED>>)]}

PageParams ==
    {[f EXCEPT !["page"] = pg, !["page_size"] = ps] :
        f \in PageFilters, pg \in PageRaws, ps \in PageSizeRaws}

\* Folder f1 and table t1 hold the same n records, n <= MaxItems.
InitPage ==
    \E n \in 0 .. MaxItems :
        /\ lake = [f \in Folders |->
                      IF f = "f1"
                      THEN Some(<<File(TRUE, AllColumns, [i \in 1 .. n |-> PageRow(i)])>>)
                      ELSE Null]
        /\ tables = [t \in TableNames |->
                      IF t = "t1"
                      THEN Some(Table(TRUE, AllColumns, [i \in 1 .. n |-> PageRow(i)]))
                      ELSE Null]
        /\ dbUp = TRUE
        /\ req = Null
        /\ resp = NoResponses
        /\ clock = 0
        /\ Quiet

\* A client asks /parquet/f1/ or /db/t1/ for a page.
ReceivePage ==
    /\ req = Null
    /\ \E qp \in PageParams, e \in {"parquet", "table"} :
          req' = Some(Request(qp, {e}, "f1", "t1"))
    /\ UNCHANGED <<lake, tables, dbUp, resp, clock>>
    /\ UNCHANGED <<scan, perms, log, consumer>>

NextPage ==
    \/ ReceivePage
    \/ \E folder \in Folders : ParquetGet(folder)
    \/ \E table \in TableNames : TableGet(table)
    \/ Done

SpecPage == InitPage /\ [][NextPage]_vars

\* --------------------------------------------------- properties: paging

\* The endpoints that answered the request being served.
Answered == {e \in Endpoints : req # Null /\ resp[e] # Null}

\* The page number the request asks for, when it is a number.
AskedPage == IF Qp["page"] = Null THEN Null ELSE ParseInt(The(Qp["page"]))

\* The page size the request asks for, when it is a number.
AskedSize == IF Qp["page_size"] = Null THEN Null ELSE ParseInt(The(Qp["page_size"]))

Max(a, b) == IF a > b THEN a ELSE b

\* C5: a request for a page past the last one, on a source that holds
\* records, is answered with a page result without items, page_size and
\* total_count populated, and never with an error.
C5_PastEndIsEmptyPage ==
    \A e \in Answered :
        LET r == The(resp[e]) IN
        (/\ r.loaded # <<>>
         /\ \E n \in AskedPage : n > num_pages(Len(r.all), get_page_size(Qp)))
        => /\ r.status = 200
           /\ r.kind = "page"
           /\ r.results = <<>>
           /\ r.pagination.page_size = get_page_size(Qp)
           /\ r.pagination.total_count = Len(r.all)

\* C6: in every page result, total_pages = ceil(total_count / page_size).
C6_TotalPagesIsCeil ==
    \A e \in Answered :
        LET r == The(resp[e]) IN
        r.kind = "page"
        => /\ r.pagination.total_count = Len(r.all)
           /\ r.pagination.total_pages =
                 CeilDiv(r.pagination.total_count, r.pagination.page_size)

\* C6 as amended: total_pages = ceil(total_count / page_size) when
\* total_count >= 1, and total_pages = 1 when total_count = 0.
C6_TotalPagesAtLeastOne ==
    \A e \in Answered :
        LET r == The(resp[e]) IN
        r.kind = "page"
        => /\ r.pagination.total_count = Len(r.all)
           /\ r.pagination.total_pages =
                 IF r.pagination.total_count = 0 THEN 1
                 ELSE CeilDiv(r.pagination.total_count, r.pagination.page_size)

\* C6 happens: a filter left zero of the loaded records, and the page
\* result reports one page.
C6_Witness ==
    \E e \in Answered :
        /\ The(resp[e]).kind = "page"
        /\ The(resp[e]).loaded # <<>>
        /\ The(resp[e]).pagination.total_count = 0
        /\ The(resp[e]).pagination.total_pages = 1
        /\ The(resp[e]).pagination.page_size = 2

\* C7: in every page result, offset = (page - 1) * page_size, and the items
\* are the records at positions offset .. offset + page_size - 1 (counted
\* from 0) of the filtered, sorted list, as far as the list goes.
C7_OffsetAndSlice ==
    \A e \in Answered :
        LET r == The(resp[e])
            pg == r.pagination
        IN  r.kind = "page"
            => /\ pg.offset = (pg.page - 1) * pg.page_size
               /\ r.results =
                     SubSeq(r.all, pg.offset + 1, Min(pg.offset + pg.page_size, Len(r.all)))
               /\ IsSortedDesc(r.all)

\* C7 happens: a second page of one item, with items before and after it.
C7_Witness ==
    \E e \in Answered :
        /\ The(resp[e]).kind = "page"
        /\ The(resp[e]).pagination.page = 2
        /\ The(resp[e]).pagination.offset = 1
        /\ Len(The(resp[e]).results) = 1
        /\ Len(The(resp[e]).all) > 2

\* C8: the effective page size is the requested one clamped to
\* [1, max_page_size], and no request is rejected because of its page_size.
C8_PageSizeClamped ==
    \A e \in Answered :
        LET r == The(resp[e]) IN
        /\ (r.kind = "page" /\ AskedSize # Null)
           => r.pagination.page_size = Max(1, Min(The(AskedSize), max_page_size))
        /\ Qp["page"] = Null => r.status = 200

\* C8 as amended: a requested page_size that is a positive integer is
\* reduced to max_page_size when above it; a page_size that is zero,
\* negative or not an integer gives the default page_size; no request is
\* rejected because of its page_size.
C8_PageSizeCappedOrDefault ==
    \A e \in Answered :
        LET r == The(resp[e]) IN
        /\ r.kind = "page"
           => r.pagination.page_size =
                 IF AskedSize # Null /\ The(AskedSize) >= 1
                 THEN Min(The(AskedSize), max_page_size)
                 ELSE page_size
        /\ Qp["page"] = Null => r.status = 200

\* C8 happens: a request with page_size=11 was answered with page_size 10.
C8_Witness ==
    \E e \in Answered :
        /\ The(resp[e]).kind = "page"
        /\ AskedSize = Some(11)
        /\ The(resp[e]).pagination.page_size = 10
        /\ The(resp[e]).results # <<>>

\* ----------------------------------------------------------------- metrics

\* A TIMESTAMP cell that holds text which is no date.
BadTs == -1

\* pd.to_datetime(cell, errors='coerce'): NaT for text that is no date.
to_datetime(cell) == IF cell # Null /\ The(cell) = BadTs THEN Null ELSE cell

\* MetricsBaseView.standardize_timestamps
standardize_timestamps(df) ==
    IF "TIMESTAMP" \in df.cols
    THEN DataFrame(df.cols,
             [i \in DOMAIN df.rows |->
                 [df.rows[i] EXCEPT !["TIMESTAMP"] = to_datetime(df.rows[i]["TIMESTAMP"])]])
    ELSE df

\* The orders in which os.listdir or the inspector may list a set of names.
Orders(S) ==
    {s \in [1 .. Cardinality(S) -> S] : \A i, j \in DOMAIN s : i # j => s[i] # s[j]}

\* The frames read from a list of partition files or tables.
read_frames(sources) ==
    LET readable == read_each(sources)
    IN  [i \in DOMAIN readable |->
            standardize_timestamps(DataFrame(readable[i].cols, readable[i].rows))]

\* MetricsBaseView.load_parquet_data: the frames it may return.
load_parquet_data ==
    {LET parquet_files == Flatten([i \in DOMAIN folder_names |-> The(lake[folder_names[i]])])
         all_parquet_data == read_frames(parquet_files)
     IN  IF all_parquet_data = <<>> THEN EmptyDF ELSE Concat(all_parquet_data)
     : folder_names \in Orders({f \in Folders : lake[f] # Null})}

\* A loader that reads the tables without connecting.
load_database_data_unguarded ==
    {LET all_db_data == read_frames([i \in DOMAIN table_names |-> The(tables[table_names[i]])])
     IN  IF all_db_data = <<>> THEN EmptyDF ELSE Concat(all_db_data)
     : table_names \in Orders({t \in TableNames : tables[t] # Null})}

\* MetricsBaseView.load_database_data: the frames it may return.  A server
\* that is down raises on the first use of the engine, which the outer
\* except catches.
load_database_data ==
    IF ~dbUp THEN {EmptyDF}
    ELSE
    {LET all_db_data == read_frames([i \in DOMAIN table_names |-> The(tables[table_names[i]])])
     IN  IF all_db_data = <<>> THEN EmptyDF ELSE Concat(all_db_data)
     : table_names \in Orders({t \in TableNames : tables[t] # Null})}

\* One merge step of load_all_data.
Combine(combined_df, df) ==
    IF ~IsEmpty(df) /\ ~IsEmpty(combined_df) THEN Concat(<<combined_df, df>>)
    ELSE IF ~IsEmpty(df) THEN df
    ELSE combined_df

\* MetricsBaseView.load_all_data: the frames it may return.
load_all_data ==
    {Combine(Combine(EmptyDF, parquet_df), db_df) :
        parquet_df \in load_parquet_data, db_df \in load_database_data}

\* request.query_params.get('minutes', 5)
DefaultMinutes == 5

\* The transaction types that count as spending.
SpendingTypes == {"purchase", "payment"}

\* A type test that lets every typed record through.
is_any_type(cell) == cell # Null

\* Series.isin(['purchase', 'payment']) on one cell.
is_spending(cell) == \E x \in cell : x \in SpendingTypes

\* Series.sum() of AMOUNT_USD: NaN is skipped.
sum_amounts(rows) ==
    SeqSum([i \in DOMAIN rows |->
               IF rows[i].AMOUNT_USD = Null THEN 0 ELSE The(rows[i].AMOUNT_USD)])

\* The response of /metrics/recent-spending/.  kind is "window" (the full
\* body), "empty" (the body without the window, for an empty frame) or
\* "error".  loaded and counted are not sent: they record the rows
\* load_all_data returned and the rows of spending_df.
RecentResponse(status, kind, total_spent, transaction_count, minutes, window, loaded, counted) ==
    [status |-> status, kind |-> kind, total_spent |-> total_spent,
     transaction_count |-> transaction_count, minutes |-> minutes,
     window |-> window, loaded |-> loaded, counted |-> counted]

\* RecentSpendingMetricsView.get, after load_all_data returned df.
recent_spending(df, minutes, current_time) ==
    IF IsEmpty(df) THEN RecentResponse(200, "empty", 0, 0, Some(minutes), Null, df.rows, <<>>)
    ELSE
    LET time_window == current_time - minutes
        recent_df ==
            IF "TIMESTAMP" \in df.cols
            THEN SelectSeq(df.rows, LAMBDA r :
                     r.TIMESTAMP # Null /\ The(r.TIMESTAMP) >= time_window)
            ELSE df.rows
        spending_df ==
            IF "TRANSACTION_TYPE" \in df.cols
            THEN SelectSeq(recent_df, LAMBDA r : is_spending(r.TRANSACTION_TYPE))
            ELSE recent_df
        total_spent == IF "AMOUNT_USD" \in df.cols THEN sum_amounts(spending_df) ELSE 0
    IN  RecentResponse(200, "window", total_spent, Len(spending_df), Some(minutes),
                       Some(<<time_window, current_time>>), df.rows, spending_df)

\* GET /metrics/recent-spending/ : RecentSpendingMetricsView.get.  int()
\* raises on a minutes value that is no integer, before anything is loaded.
RecentGet ==
    /\ req # Null
    /\ "recent" \in The(req).to
    /\ resp["recent"] = Null
    /\ LET raw == The(req).qp["minutes"]
           minutes == IF raw = Null THEN Some(DefaultMinutes) ELSE ParseInt(The(raw))
       IN  IF minutes = Null
           THEN resp' = [resp EXCEPT !["recent"] =
                            Some(RecentResponse(500, "error", 0, 0, Null, Null, <<>>, <<>>))]
           ELSE \E df \in load_all_data :
                    resp' = [resp EXCEPT !["recent"] =
                                Some(recent_spending(df, The(minutes), clock))]
    /\ UNCHANGED <<lake, tables, dbUp, req, clock>>
    /\ UNCHANGED <<scan, perms, log, consumer>>

\* ------------------------------------------------------ the metrics runs

MaxClock == 11

\* A record of the metrics runs: its id, event time, type and amount.
MRow(id, ts, ttype, amt) ==
    Row(id, ts, Some(CARD), Some(FR), Some(BOOKS), Some(COMPLETED), amt, Some(3),
        Some("u1"), ttype, Some("p1"), Some(1))

\* The records of the partition files a, b (folder f1) and c (folder f2) and
\* of the tables t1 and t2.  Times are minutes; the runs start at minute 10.
RowsA == <<MRow(1, Some(0), Some("purchase"), Some(50)),
           MRow(2, Some(9), Some("payment"), Some(20))>>
RowsB == <<MRow(3, Some(9), Some("refund"), Some(7)),
           MRow(4, Null, Some("purchase"), Some(5))>>
RowsC == <<MRow(5, Some(8), Some("purchase"), Null),
           MRow(6, Some(2), Some("payment"), Some(4))>>
RowsT1 == <<MRow(7, Some(BadTs), Some("payment"), Some(3)),
            MRow(8, Some(10), Null, Some(2))>>
RowsT2 == <<MRow(9, Some(11), Some("purchase"), Some(6))>>

\* A source written without one of the columns.
Lacking(col, rows) ==
    File(TRUE, AllColumns \ {col}, [i \in DOMAIN rows |-> [rows[i] EXCEPT ![col] = Null]])

\* What a source written from another topic may look like: complete,
\* unreadable, or lacking a column the metrics read.
Drifted(rows) ==
    {File(TRUE, AllColumns, rows), File(FALSE, AllColumns, rows)}
    \cup {Lacking(col, rows) : col \in {"TIMESTAMP", "TRANSACTION_TYPE", "AMOUNT_USD"}}

\* What a client sends as minutes; Null is the key left out.
MinutesRaws == {Null, Some("5"), Some("10"), Some("1"), Some("-1"), Some("abc")}

InitMetrics ==
    /\ \E f1 \in {Null}
                 \cup {Some(<<File(a, AllColumns, RowsA)>>) : a \in BOOLEAN}
                 \cup {Some(<<File(a, AllColumns, RowsA), File(b, AllColumns, RowsB)>>) :
                          a \in BOOLEAN, b \in BOOLEAN},
          f2 \in {Null, Some(<<>>)} \cup {Some(<<c>>) : c \in Drifted(RowsC)} :
          lake = [f \in Folders |-> IF f = "f1" THEN f1 ELSE f2]
    /\ \E t1 \in {Null} \cup {Some(Table(ok, AllColumns, RowsT1)) : ok \in BOOLEAN},
          t2 \in {Null} \cup {Some(t) : t \in Drifted(RowsT2)} :
          tables = [t \in TableNames |-> IF t = "t1" THEN t1 ELSE t2]
    /\ dbUp \in BOOLEAN
    /\ req = Null
    /\ resp = NoResponses
    /\ clock = 10
    /\ Quiet

\* A client sends one query string to /parquet/<folder>/ and to
\* /metrics/recent-spending/.
ReceiveMetrics ==
    /\ req = Null
    /\ \E m \in MinutesRaws, folder \in Folders :
          req' = Some(Request([NoParams EXCEPT !["minutes"] = m],
                              {"parquet", "recent"}, folder, "t1"))
    /\ UNCHANGED <<lake, tables, dbUp, resp, clock>>
    /\ UNCHANGED <<scan, perms, log, consumer>>

\* A minute passes between two requests.
Tick ==
    /\ req = Null
    /\ clock < MaxClock
    /\ clock' = clock + 1
    /\ UNCHANGED <<lake, tables, dbUp, req, resp>>
    /\ UNCHANGED <<scan, perms, log, consumer>>

NextMetrics ==
    \/ ReceiveMetrics
    \/ \E folder \in Folders : ParquetGet(folder)
    \/ RecentGet
    \/ Done
    \/ Tick

SpecMetrics == InitMetrics /\ [][NextMetrics]_vars

\* --------------------------------------------------- properties: metrics

\* The partition files of a folder that can be read.
ReadableFiles(folder) ==
    IF lake[folder] = Null THEN {} ELSE {f \in Range(The(lake[folder])) : f.ok}

\* The tables that can be read.
ReadableTables ==
    IF ~dbUp THEN {}
    ELSE {t \in {The(tables[n]) : n \in {x \in TableNames : tables[x] # Null}} : t.ok}

\* The sources a metrics request merges, their records and their columns.
MergedSources == UNION {ReadableFiles(folder) : folder \in Folders} \cup ReadableTables
MergedRows == UNION {Range(s.rows) : s \in MergedSources}
MergedCols == UNION {s.cols : s \in MergedSources}

Ids(rows) == {r.TRANSACTION_ID : r \in rows}

\* The minutes the request asks for, when they are an integer.
AskedMinutes ==
    IF Qp["minutes"] = Null THEN Some(DefaultMinutes) ELSE ParseInt(The(Qp["minutes"]))

\* A record whose event time is known and not before now - minutes.
InWindow(r, minutes) ==
    /\ r.TIMESTAMP # Null
    /\ The(r.TIMESTAMP) # BadTs
    /\ The(r.TIMESTAMP) >= clock - minutes

\* A record of type purchase or payment.
IsSpendingRecord(r) == r.TRANSACTION_TYPE \cap SpendingTypes # {}

RECURSIVE AmountOver(_)
\* The sum of AMOUNT_USD over a set of records, null counting as 0.
AmountOver(S) ==
    IF S = {} THEN 0
    ELSE LET r == CHOOSE x \in S : TRUE
         IN  (IF r.AMOUNT_USD = Null THEN 0 ELSE The(r.AMOUNT_USD)) + AmountOver(S \ {r})

\* The merged records recentSpend counts: the time condition applies when
\* some merged source has a TIMESTAMP column, the type condition when some
\* merged source has a TRANSACTION_TYPE column.
Counted(minutes) ==
    {r \in MergedRows :
        /\ "TIMESTAMP" \in MergedCols => InWindow(r, minutes)
        /\ "TRANSACTION_TYPE" \in MergedCols => IsSpendingRecord(r)}

C11_CountedInsideWindow ==
    (req # Null /\ resp["recent"] # Null /\ The(resp["recent"]).kind = "window")
    => LET r == The(resp["recent"])
           start == clock - The(AskedMinutes)
       IN  /\ r.window = Some(<<start, clock>>)
           /\ r.transaction_count = Len(r.counted)
           /\ \A i \in DOMAIN r.counted :
                 /\ r.counted[i].TIMESTAMP # Null
                 /\ The(r.counted[i].TIMESTAMP) >= start
                 /\ The(r.counted[i].TIMESTAMP) <= clock

\* ------------------------------------------------------------ user spending

\* The strings of the model that are compared, in the order Python and
\* pandas sort them.
Lexicographic ==
    <<"p1", "p2", "p3", "p4", "payment", "purchase", "refund", "sale", "u1", "u2", "u3">>

\* The position of a string in that order.
Rank(str) == CHOOSE i \in DOMAIN Lexicographic : Lexicographic[i] = str

\* The members of a set of strings, in ascending order.
SortedAsc(S) ==
    CHOOSE s \in Orders(S) : \A i, j \in DOMAIN s : i < j => Rank(s[i]) < Rank(s[j])

\* df.dropna(subset=cols)
dropna(rows, cols) == SelectSeq(rows, LAMBDA r : \A c \in cols : r[c] # Null)

\* A group aggregate that counts the rows of the group.
group_count(rows) == Len(rows)

\* groupby(...)['AMOUNT_USD'].sum() on the rows of one group.
group_sum(rows) == sum_amounts(rows)

\* A descending sort that leaves equal totals in reverse order.
sorted_desc_reversed_ties(result) ==
    LET p == CHOOSE q \in Permutations(DOMAIN result) :
                 \A i, j \in DOMAIN result : i < j =>
                     \/ result[q[i]].total_spending > result[q[j]].total_spending
                     \/ /\ result[q[i]].total_spending = result[q[j]].total_spending
                        /\ q[i] > q[j]
    IN  [i \in DOMAIN result |-> result[p[i]]]

\* sorted(result, key=lambda x: x['total_spending'], reverse=True): a stable
\* sort, entries with equal totals keep their order.
sorted_desc(result) ==
    LET p == CHOOSE q \in Permutations(DOMAIN result) :
                 \A i, j \in DOMAIN result : i < j =>
                     \/ result[q[i]].total_spending > result[q[j]].total_spending
                     \/ /\ result[q[i]].total_spending = result[q[j]].total_spending
                        /\ q[i] < q[j]
    IN  [i \in DOMAIN result |-> result[p[i]]]

\* The entry of one user: the groups of the user in ascending type order
\* (groupby sorts its keys), and the sum over them.
user_result(rows, user_id) ==
    LET user_data == SelectSeq(rows, LAMBDA r : The(r.USER_ID) = user_id)
        types == SortedAsc({The(user_data[i].TRANSACTION_TYPE) : i \in DOMAIN user_data})
        spending_by_type ==
            [k \in DOMAIN types |->
                [transaction_type |-> types[k],
                 amount |-> group_sum(SelectSeq(user_data, LAMBDA r :
                                          The(r.TRANSACTION_TYPE) = types[k]))]]
    IN  [user_id |-> user_id,
         spending_by_type |-> spending_by_type,
         total_spending |-> SeqSum([k \in DOMAIN spending_by_type |->
                                       spending_by_type[k].amount])]

\* The response of /metrics/user-spending/.  kind is "users" or "error";
\* loaded is not sent.
UserResponse(status, kind, users, loaded) ==
    [status |-> status, kind |-> kind, users |-> users, loaded |-> loaded]

\* A dropna that also asks for an event time.
UserRequiredWithTime == {"USER_ID", "TRANSACTION_TYPE", "AMOUNT_USD", "TIMESTAMP"}

\* required_columns of UserSpendingMetricsView.get
UserRequired == {"USER_ID", "TRANSACTION_TYPE", "AMOUNT_USD"}

\* UserSpendingMetricsView.get on a frame that has the required columns:
\* dropna, groupby, one entry per user, sorted.
users_of(df) ==
    LET rows == dropna(df.rows, UserRequired)
        user_ids == SortedAsc({The(rows[i].USER_ID) : i \in DOMAIN rows})
        result == [k \in DOMAIN user_ids |-> user_result(rows, user_ids[k])]
    IN  UserResponse(200, "users", sorted_desc(result), df.rows)

\* A view that answers with an error when nothing was loaded.
user_spending_error_on_empty(df) ==
    IF IsEmpty(df) \/ ~(UserRequired \subseteq df.cols)
    THEN UserResponse(500, "error", <<>>, df.rows)
    ELSE users_of(df)

\* UserSpendingMetricsView.get, after load_all_data returned df.
user_spending(df) ==
    IF IsEmpty(df) \/ "USER_ID" \notin df.cols THEN UserResponse(200, "users", <<>>, df.rows)
    ELSE IF ~(UserRequired \subseteq df.cols) THEN UserResponse(500, "error", <<>>, df.rows)
    ELSE users_of(df)

\* GET /metrics/user-spending/ : UserSpendingMetricsView.get
UserSpendGet ==
    /\ req # Null
    /\ "users" \in The(req).to
    /\ resp["users"] = Null
    /\ \E df \in load_all_data :
          resp' = [resp EXCEPT !["users"] = Some(user_spending(df))]
    /\ UNCHANGED <<lake, tables, dbUp, req, clock>>
    /\ UNCHANGED <<scan, perms, log, consumer>>

\* ---------------------------------------------------- the user spending runs

MaxSpendRows == 3

\* A record of the user spending runs: its id, user, type and amount.
URow(id, user, ttype, amt) ==
    Row(id, Some(id), Some(CARD), Some(FR), Some(BOOKS), Some(COMPLETED), amt, Some(3),
        user, ttype, Some("p1"), Some(1))

\* Users with several types, users with equal totals, and records with a
\* null user, type or amount.
SpendRows ==
    {URow(1, Some("u1"), Some("purchase"), Some(10)),
     URow(2, Some("u1"), Some("refund"), Some(5)),
     URow(3, Some("u2"), Some("purchase"), Some(7)),
     URow(4, Some("u2"), Some("purchase"), Some(3)),
     URow(5, Some("u3"), Some("payment"), Some(10)),
     URow(6, Some("u1"), Some("purchase"), Null),
     URow(7, Null, Some("purchase"), Some(4)),
     URow(8, Some("u3"), Null, Some(2))}

\* The sequences of at most n different records of a set, in every order.
Arrangements(universe, n) ==
    UNION {Orders(S) : S \in {T \in SUBSET universe : Cardinality(T) <= n}}

\* Some records, in some order: the first of them in a partition file of
\* folder f1, the others in table t1.
InitUsers ==
    /\ \E rows \in Arrangements(SpendRows, MaxSpendRows) :
       \E k \in 0 .. Len(rows) :
          /\ lake = [f \in Folders |->
                        IF f = "f1"
                        THEN Some(<<File(TRUE, AllColumns, SubSeq(rows, 1, k))>>)
                        ELSE Null]
          /\ tables = [t \in TableNames |->
                        IF t = "t1"
                        THEN Some(Table(TRUE, AllColumns, SubSeq(rows, k + 1, Len(rows))))
                        ELSE Null]
    /\ dbUp = TRUE
    /\ req = Null
    /\ resp = NoResponses
    /\ clock = 0
    /\ Quiet

\* A client asks /metrics/user-spending/.
ReceiveUsers ==
    /\ req = Null
    /\ req' = Some(Request(NoParams, {"users"}, "f1", "t1"))
    /\ UNCHANGED <<lake, tables, dbUp, resp, clock>>
    /\ UNCHANGED <<scan, perms, log, consumer>>

NextUsers ==
    \/ ReceiveUsers
    \/ UserSpendGet
    \/ Done

SpecUsers == InitUsers /\ [][NextUsers]_vars

\* ------------------------------------------------ properties: user spending

\* The merged records that have a user, a type and an amount.
Grouped == {r \in MergedRows : r.USER_ID # Null /\ r.TRANSACTION_TYPE # Null /\ r.AMOUNT_USD # Null}

\* The users of a successful user spending response.
UsersAnswer == The(resp["users"]).users

UsersAnswered == req # Null /\ resp["users"] # Null /\ The(resp["users"]).kind = "users"

\* C12: userSpend returns one entry per USER_ID, ordered by grand total
\* descending, and users with equal grand totals in ascending USER_ID order.
C12_UsersByTotalThenId ==
    UsersAnswered =>
        /\ {UsersAnswer[i].user_id : i \in DOMAIN UsersAnswer} = {The(r.USER_ID) : r \in Grouped}
        /\ \A i, j \in DOMAIN UsersAnswer : i < j =>
              /\ UsersAnswer[i].user_id # UsersAnswer[j].user_id
              /\ \/ UsersAnswer[i].total_spending > UsersAnswer[j].total_spending
                 \/ /\ UsersAnswer[i].total_spending = UsersAnswer[j].total_spending
                    /\ Rank(UsersAnswer[i].user_id) < Rank(UsersAnswer[j].user_id)

\* C12 happens: two users have equal grand totals, the one with the greater
\* USER_ID was loaded first, and the answer lists the other one first.
C12_Witness ==
    /\ UsersAnswered
    /\ Len(UsersAnswer) >= 2
    /\ UsersAnswer[1].total_spending = UsersAnswer[2].total_spending
    /\ LET loaded == The(resp["users"]).loaded
       IN  /\ Len(loaded) >= 2
           /\ loaded[1].USER_ID = Some(UsersAnswer[2].user_id)
           /\ loaded[2].USER_ID = Some(UsersAnswer[1].user_id)

DefaultLimit == 10

\* A type test that takes sales for purchases.
is_purchase_or_sale(cell) == cell = Some("purchase") \/ cell = Some("sale")

\* df['TRANSACTION_TYPE'] == 'purchase' on one cell.
is_purchase(cell) == cell = Some("purchase")

\* Series.sum() of QUANTITY: NaN is skipped.
sum_quantities(rows) ==
    SeqSum([i \in DOMAIN rows |-> IF rows[i].QUANTITY = Null THEN 0 ELSE The(rows[i].QUANTITY)])

\* The row of product_counts of one product: groupby('PRODUCT_ID') followed
\* by agg(agg_dict), or by size() when agg_dict is empty.  sort_key is the
\* value of the column the frame is sorted on.
product_row(purchases, cols, product_id) ==
    LET group == SelectSeq(purchases, LAMBDA r : r.PRODUCT_ID = Some(product_id))
        quantity == IF "QUANTITY" \in cols THEN Some(sum_quantities(group)) ELSE Null
        revenue == IF "AMOUNT_USD" \in cols THEN Some(sum_amounts(group)) ELSE Null
        count == IF quantity = Null /\ revenue = Null THEN Some(Len(group)) ELSE Null
    IN  [product_id |-> product_id,
         quantity_sold |-> quantity,
         total_revenue |-> revenue,
         purchase_count |-> count,
         sort_key |-> IF quantity # Null THEN The(quantity)
                      ELSE IF revenue # Null THEN The(revenue)
                      ELSE Len(group)]

\* product_counts.sort_values(sort_col, ascending=False): the default kind
\* is quicksort, which promises no order among equal keys, so every
\* descending arrangement is a possible result.
sort_products(product_counts) ==
    {s \in {[i \in DOMAIN product_counts |-> product_counts[p[i]]] :
               p \in Permutations(DOMAIN product_counts)} :
        \A i, j \in DOMAIN s : i < j => s[i].sort_key >= s[j].sort_key}

\* DataFrame.head(n): the first n rows, or all rows but the last -n when n is
\* negative.
head(rows, n) ==
    IF n >= 0 THEN SubSeq(rows, 1, Min(n, Len(rows)))
    ELSE SubSeq(rows, 1, Len(rows) + n)

\* The response of /metrics/top-products/.  kind is "products" or "error";
\* limit is null when the body carries none; loaded is not sent.
ProductsResponse(status, kind, products, limit, loaded) ==
    [status |-> status, kind |-> kind, products |-> products, limit |-> limit,
     loaded |-> loaded]

\* TopProductsMetricsView.get, after load_all_data returned df: the
\* responses it may give.
top_products(df, limit) ==
    IF IsEmpty(df) \/ "PRODUCT_ID" \notin df.cols
    THEN {ProductsResponse(200, "products", <<>>, Null, df.rows)}
    ELSE IF "TRANSACTION_TYPE" \notin df.cols
    THEN {ProductsResponse(500, "error", <<>>, Null, df.rows)}
    ELSE
    LET purchases_df == SelectSeq(df.rows, LAMBDA r : is_purchase(r.TRANSACTION_TYPE))
        product_ids ==
            SortedAsc({The(purchases_df[i].PRODUCT_ID) :
                          i \in {k \in DOMAIN purchases_df : purchases_df[k].PRODUCT_ID # Null}})
        product_counts ==
            [k \in DOMAIN product_ids |-> product_row(purchases_df, df.cols, product_ids[k])]
    IN  IF purchases_df = <<>>
        THEN {ProductsResponse(200, "products", <<>>, Some(limit), df.rows)}
        ELSE {ProductsResponse(200, "products", head(sorted, limit), Some(limit), df.rows) :
                 sorted \in sort_products(product_counts)}

\* GET /metrics/top-products/ : TopProductsMetricsView.get.  int() raises on
\* a limit that is no integer, before anything is loaded.
TopProductsGet ==
    /\ req # Null
    /\ "products" \in The(req).to
    /\ resp["products"] = Null
    /\ LET raw == The(req).qp["limit"]
           limit == IF raw = Null THEN Some(DefaultLimit) ELSE ParseInt(The(raw))
       IN  IF limit = Null
           THEN resp' = [resp EXCEPT !["products"] =
                            Some(ProductsResponse(500, "error", <<>>, Null, <<>>))]
           ELSE \E df \in load_all_data : \E r \in top_products(df, The(limit)) :
                    resp' = [resp EXCEPT !["products"] = Some(r)]
    /\ UNCHANGED <<lake, tables, dbUp, req, clock>>
    /\ UNCHANGED <<scan, perms, log, consumer>>

\* ------------------------------------------------------ the top products runs

MaxProductRows == 4

\* A record of the top products runs: its id, product, type, quantity and
\* amount.
PRow(id, prod, ttype, qty, amt) ==
    Row(id, Some(id), Some(CARD), Some(FR), Some(BOOKS), Some(COMPLETED), amt, Some(3),
        Some("u1"), ttype, prod, qty)

\* Products with different and with equal summed quantities, a sale, and
\* records with a null quantity or a null product.
ProductRows ==
    {PRow(1, Some("p1"), Some("purchase"), Some(5), Some(10)),
     PRow(2, Some("p2"), Some("purchase"), Some(9), Some(10)),
     PRow(3, Some("p3"), Some("purchase"), Some(1), Some(30)),
     PRow(4, Some("p4"), Some("sale"), Some(100), Some(5)),
     PRow(5, Some("p1"), Some("purchase"), Some(4), Some(1)),
     PRow(6, Some("p3"), Some("purchase"), Null, Some(2)),
     PRow(7, Null, Some("purchase"), Some(7), Some(7))}

\* What a client sends as limit; Null is the key left out.
LimitRaws == {Null, Some("1"), Some("2"), Some("3"), Some("0"), Some("-1"), Some("abc")}

\* Some records, in some order, in a partition file of folder f1 written
\* with or without the QUANTITY and AMOUNT_USD columns.
InitProducts ==
    /\ \E rows \in Arrangements(ProductRows, MaxProductRows),
          without \in SUBSET {"QUANTITY", "AMOUNT_USD"} :
          lake = [f \in Folders |->
                     IF f = "f1"
                     THEN Some(<<File(TRUE, AllColumns \ without,
                                      [i \in DOMAIN rows |->
                                          [c \in AllColumns |->
                                              IF c \in without THEN Null ELSE rows[i][c]]])>>)
                     ELSE Null]
    /\ tables = [t \in TableNames |-> Null]
    /\ dbUp = TRUE
    /\ req = Null
    /\ resp = NoResponses
    /\ clock = 0
    /\ Quiet

\* A client asks /metrics/top-products/.
ReceiveProducts ==
    /\ req = Null
    /\ \E k \in LimitRaws :
          req' = Some(Request([NoParams EXCEPT !["limit"] = k], {"products"}, "f1", "t1"))
    /\ UNCHANGED <<lake, tables, dbUp, resp, clock>>
    /\ UNCHANGED <<scan, perms, log, consumer>>

NextProducts ==
    \/ ReceiveProducts
    \/ TopProductsGet
    \/ Done

SpecProducts == InitProducts /\ [][NextProducts]_vars

\* -------------------------------------------------- properties: top products

\* The merged purchase records that name a product, and their products.
Purchases == {r \in MergedRows : r.TRANSACTION_TYPE = Some("purchase") /\ r.PRODUCT_ID # Null}
Purchased == {The(r.PRODUCT_ID) : r \in Purchases}

RECURSIVE QuantityOver(_)
\* The sum of QUANTITY over a set of records, null counting as 0.
QuantityOver(S) ==
    IF S = {} THEN 0
    ELSE LET r == CHOOSE x \in S : TRUE
         IN  (IF r.QUANTITY = Null THEN 0 ELSE The(r.QUANTITY)) + QuantityOver(S \ {r})

\* The ranking key of a product: its summed quantity when the merged data
\* has a QUANTITY column, else its summed amount when it has an AMOUNT_USD
\* column, else the number of its purchases.
RankKey(product_id) ==
    LET mine == {r \in Purchases : The(r.PRODUCT_ID) = product_id}
    IN  IF "QUANTITY" \in MergedCols THEN QuantityOver(mine)
        ELSE IF "AMOUNT_USD" \in MergedCols THEN AmountOver(mine)
        ELSE Cardinality(mine)

\* The limit the request asks for, when it is an integer.
AskedLimit ==
    IF Qp["limit"] = Null THEN Some(DefaultLimit) ELSE ParseInt(The(Qp["limit"]))

ProductsAnswered == req # Null /\ resp["products"] # Null

\* The products of the response, in order, and as a set.
ProductsAnswer == The(resp["products"]).products
Returned == {ProductsAnswer[i].product_id : i \in DOMAIN ProductsAnswer}

\* C14: for k >= 1, topProducts(k) returns purchased products only, one
\* entry each, min(k, number of purchased products) of them, in descending
\* order of the ranking key, and no product left out has a greater key than
\* a product returned; the figure reported for a product is its key.
C14_TopKByRankingKey ==
    (ProductsAnswered /\ AskedLimit # Null /\ The(AskedLimit) >= 1)
    => /\ The(resp["products"]).status = 200
       /\ Returned \subseteq Purchased
       /\ Len(ProductsAnswer) = Cardinality(Returned)
       /\ Len(ProductsAnswer) = Min(The(AskedLimit), Cardinality(Purchased))
       /\ \A i, j \in DOMAIN ProductsAnswer : i < j =>
             RankKey(ProductsAnswer[i].product_id) >= RankKey(ProductsAnswer[j].product_id)
       /\ \A inside \in Returned : \A outside \in Purchased \ Returned :
             RankKey(inside) >= RankKey(outside)
       /\ \A i \in DOMAIN ProductsAnswer :
             LET e == ProductsAnswer[i]
             IN  /\ "QUANTITY" \in MergedCols => e.quantity_sold = Some(RankKey(e.product_id))
                 /\ ("QUANTITY" \notin MergedCols /\ "AMOUNT_USD" \in MergedCols)
                    => e.total_revenue = Some(RankKey(e.product_id))
                 /\ ("QUANTITY" \notin MergedCols /\ "AMOUNT_USD" \notin MergedCols)
                    => e.purchase_count = Some(RankKey(e.product_id))

\* C14 happens: k = 3 over p1 (quantity 5), p2 (9), p3 (1) and a sale of p4
\* (100) returns p2, p1, p3.
C14_Witness ==
    /\ ProductsAnswered
    /\ AskedLimit = Some(3)
    /\ Ids(MergedRows) = {1, 2, 3, 4}
    /\ "QUANTITY" \in MergedCols
    /\ Len(ProductsAnswer) = 3
    /\ ProductsAnswer[1].product_id = "p2" /\ ProductsAnswer[1].quantity_sold = Some(9)
    /\ ProductsAnswer[2].product_id = "p1" /\ ProductsAnswer[2].quantity_sold = Some(5)
    /\ ProductsAnswer[3].product_id = "p3" /\ ProductsAnswer[3].quantity_sold = Some(1)

\* C15: no value of k makes topProducts answer with an error; k is 10 when
\* absent, and a k below 1 counts as 1: the answer then holds exactly the
\* top-ranked product when there is a purchase.
C15_LimitNeverAnError ==
    ProductsAnswered
    => /\ The(resp["products"]).status = 200
       /\ Qp["limit"] = Null => The(resp["products"]).limit \in {Null, Some(10)}
       /\ (AskedLimit # Null /\ The(AskedLimit) < 1 /\ Purchased # {})
          => /\ Len(ProductsAnswer) = 1
             /\ \A other \in Purchased :
                   RankKey(ProductsAnswer[1].product_id) >= RankKey(other)

\* C16: products with equal ranking keys are in ascending PRODUCT_ID order,
\* in the answer and at the cut of the top k.
C16_TiesByProductId ==
    (ProductsAnswered /\ AskedLimit # Null /\ The(AskedLimit) >= 1)
    => /\ \A i, j \in DOMAIN ProductsAnswer :
             (i < j /\ RankKey(ProductsAnswer[i].product_id)
                         = RankKey(ProductsAnswer[j].product_id))
             => Rank(ProductsAnswer[i].product_id) < Rank(ProductsAnswer[j].product_id)
       /\ \A inside \in Returned : \A outside \in Purchased \ Returned :
             RankKey(inside) = RankKey(outside) => Rank(inside) < Rank(outside)

\* ------------------------------------------------------------------ catalog

\* The table get_filter_options reads: sql_transactions_cleaned.
VocabularyTable == "t1"

\* The columns its queries name.
VocabularyColumns ==
    {"PAYMENT_METHOD", "LOCATION_COUNTRY", "PRODUCT_CATEGORY", "STATUS", "AMOUNT_USD",
     "CUSTOMER_RATING"}

\* The hardcoded options get_filter_options falls back to.
FallbackOptions ==
    [payment_methods |-> {<<"credit_card">>, <<"paypal">>, <<"bank_transfer">>,
                          <<"apple_pay">>, <<"google_pay">>, <<"cryptocurrency">>},
     countries |-> {<<"USA">>, <<"Canada">>, <<"UK">>, <<"Germany">>, <<"France">>,
                    <<"Japan">>, <<"Australia">>, <<"Brazil">>, <<"India">>, <<"China">>},
     product_categories |-> {<<"electronics">>, <<"clothing">>, <<"books">>,
                             <<"home_goods">>, <<"food">>},
     statuses |-> {<<"completed">>, <<"pending">>, <<"failed">>, <<"processing">>,
                   <<"cancelled">>},
     amount_range |-> [min |-> 0, max |-> 1000],
     rating_range |-> [min |-> 1, max |-> 5]]

\* SELECT DISTINCT col FROM ... WHERE col IS NOT NULL
Distinct(rows, col) == {The(rows[i][col]) : i \in {k \in DOMAIN rows : rows[k][col] # Null}}

\* SELECT MIN(col), MAX(col): 0 and 0 when no value is left.
MinMax(rows, col) ==
    LET values == Distinct(rows, col)
    IN  IF values = {} THEN [min |-> 0, max |-> 0]
        ELSE [min |-> CHOOSE v \in values : \A w \in values : v <= w,
              max |-> CHOOSE v \in values : \A w \in values : v >= w]

\* DataSourcesView.get_filter_options: the options read from the
\* vocabulary table, or the fallback when any of its queries raises.
get_filter_options ==
    IF \/ ~dbUp
       \/ tables[VocabularyTable] = Null
    THEN FallbackOptions
    ELSE LET t == The(tables[VocabularyTable])
         IN  IF ~t.ok \/ ~(VocabularyColumns \subseteq t.cols) THEN FallbackOptions
             ELSE [payment_methods |-> Distinct(t.rows, "PAYMENT_METHOD"),
                   countries |-> Distinct(t.rows, "LOCATION_COUNTRY"),
                   product_categories |-> Distinct(t.rows, "PRODUCT_CATEGORY"),
                   statuses |-> Distinct(t.rows, "STATUS"),
                   amount_range |-> MinMax(t.rows, "AMOUNT_USD"),
                   rating_range |-> MinMax(t.rows, "CUSTOMER_RATING")]

\* The folder entries of the catalog, in a listing order.
folder_entries(folder_names) ==
    [i \in DOMAIN folder_names |->
        [name |-> folder_names[i], file_count |-> Len(The(lake[folder_names[i]]))]]

\* The table entries of the catalog: the loop over the tables stops at the
\* first table whose COUNT(*) raises, and the entries appended so far stay.
table_entries(table_names) ==
    LET readable == {i \in DOMAIN table_names : The(tables[table_names[i]]).ok}
        stop == IF readable = DOMAIN table_names THEN Len(table_names) + 1
                ELSE CHOOSE i \in DOMAIN table_names \ readable :
                         \A j \in DOMAIN table_names \ readable : i <= j
    IN  [i \in 1 .. (stop - 1) |->
            [name |-> table_names[i], row_count |-> Len(The(tables[table_names[i]]).rows)]]

\* The response of the catalog.
CatalogResponse(status, parquet_folders, database_tables, filter_options) ==
    [status |-> status, parquet_folders |-> parquet_folders,
     database_tables |-> database_tables, filter_options |-> filter_options]

\* GET / : DataSourcesView.get
CatalogGet ==
    /\ req # Null
    /\ "catalog" \in The(req).to
    /\ resp["catalog"] = Null
    /\ \E folder_names \in Orders({f \in Folders : lake[f] # Null}),
          table_names \in Orders({t \in TableNames : tables[t] # Null}) :
          resp' = [resp EXCEPT !["catalog"] =
                      Some(CatalogResponse(200, folder_entries(folder_names),
                               IF dbUp THEN table_entries(table_names) ELSE <<>>,
                               get_filter_options))]
    /\ UNCHANGED <<lake, tables, dbUp, req, clock>>
    /\ UNCHANGED <<scan, perms, log, consumer>>

\* ------------------------------------------------------- the degraded runs

\* What a client sends as minutes and as limit in these runs.
ArgumentRaws == {Null, Some("abc"), Some("10")}

\* A client asks the catalog, a folder, a table or a metric, or several of
\* them with the same query string.
ReceiveAny ==
    /\ req = Null
    /\ \/ \E to \in {{"catalog"}, {"users"}, {"catalog", "users"},
                       {"recent", "users", "products"}} :
             req' = Some(Request(NoParams, to, "f1", "t1"))
       \/ \E folder \in Folders, table \in TableNames :
             req' = Some(Request(NoParams, {"parquet", "table"}, folder, table))
       \/ \E folder \in Folders :
             req' = Some(Request(NoParams, {"parquet"}, folder, "t1"))
       \/ \E table \in TableNames :
             req' = Some(Request(NoParams, {"table"}, "f1", table))
       \/ \E a \in ArgumentRaws :
             \/ req' = Some(Request([NoParams EXCEPT !["minutes"] = a], {"recent"}, "f1", "t1"))
             \/ req' = Some(Request([NoParams EXCEPT !["limit"] = a], {"products"}, "f1", "t1"))
    /\ UNCHANGED <<lake, tables, dbUp, resp, clock>>
    /\ UNCHANGED <<scan, perms, log, consumer>>

NextSources ==
    \/ ReceiveAny
    \/ CatalogGet
    \/ \E folder \in Folders : ParquetGet(folder)
    \/ \E table \in TableNames : TableGet(table)
    \/ RecentGet
    \/ UserSpendGet
    \/ TopProductsGet
    \/ Done

\* The sources of the metrics runs, readable or not, with or without a
\* reachable database.
SpecSources == InitMetrics /\ [][NextSources]_vars

\* ------------------------------------------- properties of the degraded runs

\* The records and the columns of the partition files that can be read.
FileSources == UNION {ReadableFiles(folder) : folder \in Folders}
FileRows == UNION {Range(s.rows) : s \in FileSources}
FileCols == UNION {s.cols : s \in FileSources}

\* The folders and the tables that exist.
ExistingFolders == {f \in Folders : lake[f] # Null}
ExistingTables == {t \in TableNames : tables[t] # Null}

CatalogAnswered == req # Null /\ resp["catalog"] # Null
CatalogAnswer == The(resp["catalog"])

NoResultFields(r, e) ==
    CASE e = "recent" -> r.total_spent = 0 /\ r.transaction_count = 0 /\ r.window = Null
      [] e = "users" -> r.users = <<>>
      [] e = "products" -> r.products = <<>>

FolderLoadOrder(folder) ==
    IF lake[folder] = Null THEN <<>>
    ELSE Flatten([i \in DOMAIN read_each(The(lake[folder])) |->
                     read_each(The(lake[folder]))[i].rows])
FolderCols(folder) == UNION {f.cols : f \in ReadableFiles(folder)}
TableLoadOrder(table) == IF tables[table] = Null THEN <<>> ELSE The(tables[table]).rows
TableCols(table) == IF tables[table] = Null THEN {} ELSE The(tables[table]).cols

\* The place of a record in a sequence of records with distinct ids.
PlaceIn(order, r) == CHOOSE i \in DOMAIN order : order[i].TRANSACTION_ID = r.TRANSACTION_ID

\* Descending on TIMESTAMP, null last, equal keys in the order of `order`.
StableDesc(list, order) ==
    \A i, j \in DOMAIN list : i < j =>
        /\ ~Precedes(list[j], list[i])
        /\ ~Precedes(list[i], list[j]) => PlaceIn(order, list[i]) < PlaceIn(order, list[j])

\* C20: the records of a query result, read across its pages, are in
\* non-increasing TIMESTAMP order when the data have a TIMESTAMP column;
\* records without a timestamp come last; records with equal timestamps, and
\* the records without a timestamp among themselves, keep the order in which
\* they were loaded.
C20_StableDescendingByTimestamp ==
    req # Null =>
        /\ (resp["parquet"] # Null /\ "TIMESTAMP" \in FolderCols(The(req).folder))
              => StableDesc(The(resp["parquet"]).all, FolderLoadOrder(The(req).folder))
        /\ (resp["table"] # Null /\ "TIMESTAMP" \in TableCols(The(req).table))
              => StableDesc(The(resp["table"]).all, TableLoadOrder(The(req).table))

\* ------------------------------------------ loading while files are written

\* The steps of a load.  BaseParquetView.load_parquet_files globs one folder
\* and reads its files one by one; MetricsBaseView.load_parquet_data lists
\* the folders, then globs and reads them one after the other.  Between two
\* steps the consumer may write a batch file.
\*   folder_names     the folders still to glob
\*   parquet_files    the files globbed and not yet read
\*   dataframes       the frames appended so far
\*   states           (history) the contents data_lake/ has had since the
\*                    request started
Scan(endpoint, pc, folder_names, parquet_files, dataframes, states) ==
    [endpoint |-> endpoint, pc |-> pc, folder_names |-> folder_names,
     parquet_files |-> parquet_files, dataframes |-> dataframes, states |-> states]

\* How many batch files the consumer writes during the runs.
MaxIngest == 2

\* The k-th batch file the consumer writes: one record, id 20 + k.
BatchFile(k) == File(TRUE, AllColumns, <<MRow(20 + k, Some(9), Some("purchase"), Some(k))>>)

\* The batch files already written.
Ingested ==
    {k \in 1 .. MaxIngest : \E f \in Folders : lake[f] # Null /\ BatchFile(k) \in Range(The(lake[f]))}

\* save_parquet_batch: df.to_parquet(filename) adds one file to a folder.
Ingest(folder) ==
    /\ lake[folder] # Null
    /\ Cardinality(Ingested) < MaxIngest
    /\ LET k == Cardinality(Ingested) + 1
           after == [lake EXCEPT ![folder] = Some(Append(The(lake[folder]), BatchFile(k)))]
       IN  /\ lake' = after
           /\ scan' = IF scan = Null THEN scan
                      ELSE Some([The(scan) EXCEPT !.states = @ \cup {after}])
    /\ UNCHANGED <<tables, dbUp, req, resp, clock, perms, log, consumer>>

\* A request arrives at a folder endpoint or at the recent-spending metric.
ReceiveScan ==
    /\ req = Null
    /\ scan = Null
    /\ \/ \E folder \in Folders :
             /\ req' = Some(Request(NoParams, {"parquet"}, folder, "t1"))
             /\ scan' = Some(Scan("parquet", "glob", <<folder>>, <<>>, <<>>, {lake}))
       \/ /\ req' = Some(Request(NoParams, {"recent"}, "f1", "t1"))
          /\ scan' = Some(Scan("recent", "listdir", <<>>, <<>>, <<>>, {lake}))
    /\ UNCHANGED <<lake, tables, dbUp, resp, clock, perms, log, consumer>>

\* folder_names = [f for f in os.listdir(data_lake_path) if os.path.isdir(...)]
ListFolders ==
    /\ scan # Null
    /\ The(scan).pc = "listdir"
    /\ \E folder_names \in Orders({f \in Folders : lake[f] # Null}) :
          scan' = Some([The(scan) EXCEPT !.pc = "glob", !.folder_names = folder_names])
    /\ UNCHANGED <<lake, tables, dbUp, req, resp, clock, perms, log, consumer>>

\* parquet_files = glob.glob(os.path.join(folder_path, '*.parquet')) for the
\* next folder; the load is over when no folder is left.
GlobFolder ==
    /\ scan # Null
    /\ The(scan).pc = "glob"
    /\ LET sc == The(scan) IN
       IF sc.folder_names = <<>>
       THEN scan' = Some([sc EXCEPT !.pc = "loaded"])
       ELSE LET folder == Head(sc.folder_names) IN
            scan' = Some([sc EXCEPT !.pc = "read",
                                    !.folder_names = Tail(sc.folder_names),
                                    !.parquet_files =
                                        IF lake[folder] = Null THEN <<>> ELSE The(lake[folder])])
    /\ UNCHANGED <<lake, tables, dbUp, req, resp, clock, perms, log, consumer>>

\* One turn of `for file_path in parquet_files`: pd.read_parquet in a
\* try / except / continue.
ReadFile ==
    /\ scan # Null
    /\ The(scan).pc = "read"
    /\ LET sc == The(scan) IN
       IF sc.parquet_files = <<>>
       THEN scan' = Some([sc EXCEPT !.pc = "glob"])
       ELSE LET file == Head(sc.parquet_files)
                df == DataFrame(file.cols, file.rows)
            IN  scan' = Some([sc EXCEPT
                    !.parquet_files = Tail(sc.parquet_files),
                    !.dataframes =
                        IF ~file.ok THEN @
                        ELSE IF sc.endpoint = "recent" THEN Append(@, standardize_timestamps(df))
                        ELSE Append(@, df)])
    /\ UNCHANGED <<lake, tables, dbUp, req, resp, clock, perms, log, consumer>>

\* The rest of the view, once the files are read: concat (and sort, for a
\* folder query), then the response.
AnswerScan ==
    /\ scan # Null
    /\ The(scan).pc = "loaded"
    /\ LET sc == The(scan)
           combined_df == IF sc.dataframes = <<>> THEN EmptyDF ELSE Concat(sc.dataframes)
       IN  /\ \/ /\ sc.endpoint = "parquet"
                 /\ \E s \in (IF "TIMESTAMP" \in combined_df.cols
                                THEN sort_values(combined_df.rows) ELSE {combined_df.rows}) :
                       resp' = [resp EXCEPT !["parquet"] =
                                   Some(ParquetResponse(DataFrame(combined_df.cols, s),
                                                        The(req).qp))]
              \/ /\ sc.endpoint = "recent"
                 /\ \E db_df \in load_database_data :
                       resp' = [resp EXCEPT !["recent"] =
                                   Some(recent_spending(
                                            Combine(Combine(EmptyDF, combined_df), db_df),
                                            DefaultMinutes, clock))]
           /\ scan' = Some([sc EXCEPT !.pc = "answered"])
    /\ UNCHANGED <<lake, tables, dbUp, req, clock, perms, log, consumer>>

\* The response has been sent.
ScanDone ==
    /\ scan # Null
    /\ The(scan).pc = "answered"
    /\ req' = Null
    /\ resp' = NoResponses
    /\ scan' = Null
    /\ UNCHANGED <<lake, tables, dbUp, clock, perms, log, consumer>>

\* Folders that exist, empty or holding one batch file; no database.
InitScan ==
    /\ \E f1 \in {Some(<<>>), Some(<<File(TRUE, AllColumns, RowsA)>>)},
          f2 \in {Null, Some(<<>>), Some(<<File(TRUE, AllColumns, RowsC)>>)} :
          lake = [f \in Folders |-> IF f = "f1" THEN f1 ELSE f2]
    /\ tables = [t \in TableNames |-> Null]
    /\ dbUp = FALSE
    /\ req = Null
    /\ resp = NoResponses
    /\ clock = 10
    /\ Quiet

NextScan ==
    \/ ReceiveScan
    \/ ListFolders
    \/ GlobFolder
    \/ ReadFile
    \/ AnswerScan
    \/ ScanDone
    \/ \E folder \in Folders : Ingest(folder)

SpecScan == InitScan /\ [][NextScan]_vars

\* The records data_lake/ holds in a state: those of every folder, or those
\* of one folder.
LakeIds(state, folders) ==
    UNION {Ids(Range(file.rows)) :
              file \in UNION {Range(The(state[f])) : f \in {g \in folders : state[g] # Null}}}

\* C21: the partition files a request works on are one point-in-time
\* snapshot: the records a folder query or a metrics request has loaded are
\* the records the folder, or the whole data lake, held at one moment of the
\* request.
C21_LoadedIsOneSnapshot ==
    (scan # Null /\ The(scan).pc = "answered") =>
        /\ The(scan).endpoint = "parquet" =>
              \E state \in The(scan).states :
                  Ids(Range(The(resp["parquet"]).loaded)) = LakeIds(state, {The(req).folder})
        /\ The(scan).endpoint = "recent" =>
              \E state \in The(scan).states :
                  Ids(Range(The(resp["recent"]).loaded)) = LakeIds(state, Folders)

\* ------------------------------------------- records without an event time

\* The merged records whose TIMESTAMP is null or is text that is no date.
Timeless == {r \in MergedRows : r.TIMESTAMP = Null \/ r.TIMESTAMP = Some(BadTs)}

\* recentSpend has counted no record without an event time.
NoTimelessCounted ==
    Ids(Range(The(resp["recent"]).counted)) \cap Ids(Timeless) = {}

\* userSpend has counted the records without an event time that have a
\* user, a type and an amount: the total of their user is the sum over all
\* the records of the user, these included.
TimelessCountedByUsers ==
    \A r \in Timeless \cap Grouped :
        \E i \in DOMAIN UsersAnswer :
            /\ UsersAnswer[i].user_id = The(r.USER_ID)
            /\ UsersAnswer[i].total_spending
                  = AmountOver({x \in Grouped : x.USER_ID = r.USER_ID})

\* topProducts has counted the purchases without an event time that have a
\* product: the figure of their product is its ranking key over all the
\* purchases of the product, these included.
TimelessCountedByProducts ==
    \A r \in Timeless \cap Purchases :
        \E i \in DOMAIN ProductsAnswer :
            LET e == ProductsAnswer[i] IN
            /\ e.product_id = The(r.PRODUCT_ID)
            /\ RankKey(e.product_id)
                  \in e.quantity_sold \cup e.total_revenue \cup e.purchase_count

Accounts == {"admin", "alice"}
Staff == {"admin"}

\* A DataTablePermission row.
DataTablePermission(user, table_name, permission_type, granted_by, is_active) ==
    [user |-> user, table_name |-> table_name, permission_type |-> permission_type,
     granted_by |-> granted_by, is_active |-> is_active]

\* The body of a grant or revoke request: request.data.get(...) of the three
\* keys, None when the key is absent.
PermissionData(username, table_name, permission_type) ==
    [username |-> username, table_name |-> table_name, permission_type |-> permission_type]

NoData == PermissionData(Null, Null, Null)

\* A request the API receives: the user the authentication classes found
\* ({} when anonymous), the view the path routes to, and the request body.
ApiRequest(user, endpoint, data, folder, table) ==
    [user |-> user, to |-> {endpoint}, data |-> data, qp |-> NoParams,
     folder |-> folder, table |-> table]

\* What dispatching a request gives: the status of the response, whether
\* the permission classes let the request through to the handler, the
\* DataTablePermission rows afterwards.
Outcome(status, admitted, rows) == [status |-> status, admitted |-> admitted, perms |-> rows]

\* rest_framework.permissions.IsAuthenticated
IsAuthenticated(request) == request.user # Null

\* A permission check that does not look at is_active.
has_permission_inactive_too(request) ==
    /\ request.user # Null
    /\ \/ The(request.user) \in Staff
       \/ \E p \in perms :
             /\ p.user = The(request.user)
             /\ p.table_name = "transactions"
             /\ p.permission_type \in {"read", "admin"}

\* HasTablePermission.has_permission
has_permission(request) ==
    /\ request.user # Null
    /\ \/ The(request.user) \in Staff
       \/ \E p \in perms :
             /\ p.user = The(request.user)
             /\ p.table_name = "transactions"
             /\ p.permission_type \in {"read", "admin"}
             /\ p.is_active

\* not all([username, table_name, permission_type]): a key that is absent
\* or holds the empty string.
Missing(data) ==
    \E v \in {data.username, data.table_name, data.permission_type} : v = Null \/ v = Some("")

\* The row of a (user, table_name, permission_type), if any: unique_together
\* leaves at most one.
RowsOf(rows, user, table_name, permission_type) ==
    {p \in rows : p.user = user /\ p.table_name = table_name
                     /\ p.permission_type = permission_type}

\* A grant that does not look at who asks.
grant_post_by_anyone(request) ==
    LET data == request.data
        user == The(data.username)
        found == RowsOf(perms, user, The(data.table_name), The(data.permission_type))
        row == DataTablePermission(user, The(data.table_name), The(data.permission_type),
                                   The(request.user), TRUE)
    IN  IF Missing(data) THEN Outcome(400, TRUE, perms)
        ELSE IF user \notin Accounts THEN Outcome(404, TRUE, perms)
        ELSE Outcome(201, TRUE, (perms \ found) \cup {row})

\* GrantPermissionView.post
grant_post(request) ==
    LET data == request.data
        user == The(data.username)
        found == RowsOf(perms, user, The(data.table_name), The(data.permission_type))
        row == DataTablePermission(user, The(data.table_name), The(data.permission_type),
                                   The(request.user), TRUE)
    IN  IF The(request.user) \notin Staff THEN Outcome(403, TRUE, perms)
        ELSE IF Missing(data) THEN Outcome(400, TRUE, perms)
        ELSE IF user \notin Accounts THEN Outcome(404, TRUE, perms)
        ELSE Outcome(201, TRUE, (perms \ found) \cup {row})

\* A revoke that deletes the row.
revoke_delete_row(request) ==
    LET data == request.data
        user == The(data.username)
        found == {p \in RowsOf(perms, user, The(data.table_name), The(data.permission_type)) :
                     p.is_active}
    IN  IF The(request.user) \notin Staff THEN Outcome(403, TRUE, perms)
        ELSE IF Missing(data) THEN Outcome(400, TRUE, perms)
        ELSE IF user \notin Accounts \/ found = {} THEN Outcome(404, TRUE, perms)
        ELSE Outcome(200, TRUE, perms \ found)

\* RevokePermissionView.delete
revoke_delete(request) ==
    LET data == request.data
        user == The(data.username)
        found == {p \in RowsOf(perms, user, The(data.table_name), The(data.permission_type)) :
                     p.is_active}
    IN  IF The(request.user) \notin Staff THEN Outcome(403, TRUE, perms)
        ELSE IF Missing(data) THEN Outcome(400, TRUE, perms)
        ELSE IF user \notin Accounts \/ found = {} THEN Outcome(404, TRUE, perms)
        ELSE Outcome(200, TRUE,
                     (perms \ found) \cup {[p EXCEPT !.is_active = FALSE] : p \in found})

\* APIView.dispatch: the permission classes of the view, then its handler.
\* A request without credentials is answered 401 or 403, according to the
\* first authentication class of the settings.
dispatch(request, endpoint) ==
    IF ~IsAuthenticated(request) THEN {Outcome(s, FALSE, perms) : s \in {401, 403}}
    ELSE IF endpoint = "grant" THEN {grant_post(request)}
    ELSE IF endpoint = "revoke" THEN {revoke_delete(request)}
    ELSE IF ~has_permission(request) THEN {Outcome(403, FALSE, perms)}
    ELSE IF endpoint = "parquet"
    THEN {Outcome(ParquetResponse(df, request.qp).status, TRUE, perms) :
             df \in load_parquet_files(request.folder)}
    ELSE {Outcome(TableResponse(df, request.qp,
                                build_sql_query(request.table, request.qp)).status, TRUE, perms) :
             df \in load_table_data(request.table, request.qp)}

\* The API serves the request.
Serve(endpoint) ==
    /\ req # Null
    /\ endpoint \in The(req).to
    /\ resp[endpoint] = Null
    /\ \E out \in dispatch(The(req), endpoint) :
          /\ perms' = out.perms
          /\ resp' = [resp EXCEPT ![endpoint] =
                         Some([status |-> out.status, admitted |-> out.admitted,
                               before |-> perms])]
    /\ UNCHANGED <<lake, tables, dbUp, req, clock, scan, log, consumer>>

\* What a client may send as username, table_name and permission_type.
UsernameRaws == {Null, Some("alice"), Some("ghost")}
TableNameRaws == {Null, Some(""), Some("transactions"), Some("users")}
PermissionTypeRaws == {Null, Some("read"), Some("write"), Some("admin")}

\* Who sends a request: nobody known, the administrator, the plain user.
Callers == {Null} \cup {Some(u) : u \in Accounts}

ReceiveApi ==
    /\ req = Null
    /\ \E user \in Callers :
          \/ \E e \in {"grant", "revoke"}, u \in UsernameRaws, t \in TableNameRaws,
                  p \in PermissionTypeRaws :
                req' = Some(ApiRequest(user, e, PermissionData(u, t, p), "f1", "t1"))
          \/ \E folder \in Folders :
                req' = Some(ApiRequest(user, "parquet", NoData, folder, "t1"))
          \/ \E table \in TableNames :
                req' = Some(ApiRequest(user, "table", NoData, "f1", table))
    /\ UNCHANGED <<lake, tables, dbUp, resp, clock, scan, perms, log, consumer>>

\* One folder and one table with records, and no permission yet.
InitApi ==
    /\ lake = [f \in Folders |-> IF f = "f1" THEN Some(<<File(TRUE, AllColumns, RowsA)>>)
                                   ELSE Null]
    /\ tables = [t \in TableNames |-> IF t = "t1" THEN Some(Table(TRUE, AllColumns, RowsT2))
                                       ELSE Null]
    /\ dbUp = TRUE
    /\ req = Null
    /\ resp = NoResponses
    /\ clock = 10
    /\ Quiet

NextApi ==
    \/ ReceiveApi
    \/ \E endpoint \in {"grant", "revoke", "parquet", "table"} : Serve(endpoint)
    \/ Done

SpecApi == InitApi /\ [][NextApi]_vars

\* -------------------------------------------- properties of the permissions

\* The user of the request being served and what it sent.
Caller == The(req).user
Sent3 == The(req).data

\* The rows that let a user read: active, on 'transactions', read or admin.
ReadGrants(user) ==
    {p \in perms : /\ p.user = user
                   /\ p.is_active
                   /\ p.table_name = "transactions"
                   /\ p.permission_type \in {"read", "admin"}}

\* C23: a request to a data endpoint, whatever folder or table it serves,
\* is admitted if and only if the user is authenticated and either is staff
\* or holds an active permission on 'transactions' of type read or admin; a
\* request that is not admitted is answered 401 or 403, an admitted one is
\* not.
C23_AdmittedIffStaffOrReadGrant ==
    req # Null =>
        \A e \in {"parquet", "table"} :
            resp[e] # Null =>
                LET r == The(resp[e]) IN
                /\ r.admitted <=> /\ Caller # Null
                                  /\ \/ The(Caller) \in Staff
                                     \/ ReadGrants(The(Caller)) # {}
                /\ r.admitted <=> r.status \notin {401, 403}

\* The plain user holds an inactive admin permission on 'transactions', a
\* write permission on it and a read permission on another table, and is
\* refused; or holds an active read permission and is admitted to the
\* folder f2.
C23_Witness ==
    /\ req # Null
    /\ Caller = Some("alice")
    /\ resp["parquet"] # Null
    /\ \/ /\ ~The(resp["parquet"]).admitted
          /\ \E p \in perms : p.user = "alice" /\ ~p.is_active
                                /\ p.table_name = "transactions" /\ p.permission_type = "admin"
          /\ \E p \in perms : p.user = "alice" /\ p.is_active
                                /\ p.table_name = "transactions" /\ p.permission_type = "write"
          /\ \E p \in perms : p.user = "alice" /\ p.is_active
                                /\ p.table_name = "users" /\ p.permission_type = "read"
       \/ /\ The(resp["parquet"]).admitted
          /\ The(req).folder = "f2"
          /\ ReadGrants("alice") # {}

\* C24: only staff users change permissions.  A grant or revoke request
\* from an authenticated user who is not staff is answered 403, one without
\* credentials 401 or 403, and one that lacks username, table_name or
\* permission_type or names an unknown user is not answered 200 or 201; all
\* of them leave every DataTablePermission row unchanged.
C24_OnlyStaffChangePermissions ==
    req # Null =>
        \A e \in {"grant", "revoke"} :
            resp[e] # Null =>
                LET r == The(resp[e]) IN
                /\ (Caller # Null /\ The(Caller) \notin Staff)
                      => r.status = 403 /\ perms = r.before
                /\ Caller = Null => r.status \in {401, 403} /\ perms = r.before
                /\ (\E v \in {Sent3.username, Sent3.table_name, Sent3.permission_type} :
                        v \in {Null, Some("")})
                      => r.status \notin {200, 201} /\ perms = r.before
                /\ (Sent3.username # Null /\ The(Sent3.username) \notin Accounts)
                      => r.status \notin {200, 201} /\ perms = r.before
                /\ perms # r.before => (Caller # Null /\ The(Caller) \in Staff)

\* The plain user has asked to revoke a permission that is active, with a
\* complete body, and it is still there.
C24_Witness ==
    /\ req # Null
    /\ Caller = Some("alice")
    /\ resp["revoke"] # Null
    /\ The(resp["revoke"]).status = 403
    /\ ~Missing(Sent3)
    /\ \E p \in perms : /\ p.is_active
                         /\ p.user = The(Sent3.username)
                         /\ p.table_name = The(Sent3.table_name)
                         /\ p.permission_type = The(Sent3.permission_type)

\* The (user, table_name, permission_type) of the rows of a table.
Triples(rows) == {<<p.user, p.table_name, p.permission_type>> : p \in rows}

\* The rows of a table on other triples than the one the request names.
Others(rows) ==
    {p \in rows : <<p.user, p.table_name, p.permission_type>>
                     # <<The(Sent3.username), The(Sent3.table_name), The(Sent3.permission_type)>>}

\* The rows of a table on the triple the request names.
Named(rows) == rows \ Others(rows)

\* C25: there is at most one row per (user, table_name, permission_type).
\* A successful grant leaves the row of its triple active and a successful
\* revoke leaves it inactive, neither touches another row, and no other
\* request changes a row, so is_active tells the last successful operation
\* on the triple.  A revoke of a permission that does not exist or is
\* inactive is answered 404 and changes nothing; no request deletes a row.
C25_OneRowPerTripleLastOpWins ==
    /\ \A p, q \in perms :
          <<p.user, p.table_name, p.permission_type>>
              = <<q.user, q.table_name, q.permission_type>> => p = q
    /\ req # Null =>
          \A e \in {"grant", "revoke", "parquet", "table"} :
              resp[e] # Null =>
                  LET r == The(resp[e]) IN
                  /\ Triples(r.before) \subseteq Triples(perms)
                  /\ (e = "grant" /\ r.status = 201) =>
                        /\ Cardinality(Named(perms)) = 1
                        /\ \A p \in Named(perms) : p.is_active
                        /\ Others(perms) = Others(r.before)
                  /\ (e = "revoke" /\ r.status = 200) =>
                        /\ Cardinality(Named(perms)) = 1
                        /\ \A p \in Named(perms) : ~p.is_active
                        /\ \A p \in Named(r.before) : p.is_active
                        /\ Others(perms) = Others(r.before)
                  /\ ~(e = "grant" /\ r.status = 201) /\ ~(e = "revoke" /\ r.status = 200)
                        => perms = r.before
                  /\ (e = "revoke" /\ Caller # Null /\ The(Caller) \in Staff /\ ~Missing(Sent3)
                         /\ \A p \in Named(r.before) : ~p.is_active)
                        => r.status = 404 /\ perms = r.before

\* A revoke has succeeded: the row of its triple is still there, inactive,
\* beside the row of another triple.
C25_Witness ==
    /\ req # Null
    /\ resp["revoke"] # Null
    /\ The(resp["revoke"]).status = 200
    /\ Cardinality(Named(perms)) = 1
    /\ \A p \in Named(perms) : ~p.is_active
    /\ Cardinality(perms) >= 2

\* ------------------------------------------------------- the access log

\* Paths, as sequences of tokens.
GrantPath == <<"/", "transactions", "/", "permissions", "/", "grant", "/">>
RevokePath == <<"/", "transactions", "/", "permissions", "/", "revoke", "/">>
FolderPath == <<"/", "transactions", "/", "parquet", "/", "f1", "/">>
LoginPath == <<"/", "auth", "/", "login", "/">>
AdminPath == <<"/", "admin", "/">>
BarePath == <<"/", "transactions">>
Paths == {GrantPath, RevokePath, FolderPath, LoginPath, AdminPath, BarePath}

\* str.startswith
startswith(str, prefix) ==
    Len(str) >= Len(prefix) /\ SubSeq(str, 1, Len(prefix)) = prefix

\* The URL resolver: the view a path routes to, "other" when it is no view
\* of this application.
Route(path) ==
    CASE path = GrantPath -> "grant"
      [] path = RevokePath -> "revoke"
      [] path = FolderPath -> "parquet"
      [] OTHER -> "other"

\* An HTTP request: an ApiRequest with its path and whether its body is
\* valid UTF-8.
HttpRequest(user, path, utf8, data) ==
    [user |-> user, to |-> {Route(path)}, data |-> data, qp |-> NoParams,
     folder |-> "f1", table |-> "t1", path |-> path, utf8 |-> utf8]

\* An APIAccessLog row: the fields the model reads.
APIAccessLog(path, response_status) == [path |-> path, response_status |-> response_status]

\* request.path.startswith('/transactions/') or request.path.startswith('/auth/')
is_api_path(path) ==
    \/ startswith(path, <<"/", "transactions", "/">>)
    \/ startswith(path, <<"/", "auth", "/">>)

\* What the rest of the stack answers: the view of the path, or 404 for a
\* path this application does not route (200 for the admin site).
get_response(request) ==
    IF Route(request.path) = "other"
    THEN {Outcome(IF request.path = AdminPath THEN 200 ELSE 404, FALSE, perms)}
    ELSE dispatch(request, Route(request.path))

\* How many rows the access log may hold in the runs.
MaxLog == 2

\* APIAccessLogMiddleware.__call__ (MiddlewareMixin): process_request, the
\* rest of the stack, process_response.  request.body.decode('utf-8') raises
\* on a body that is no UTF-8, outside any try: the exception leaves the
\* middleware, the handler around it answers 500, and neither the view nor
\* process_response runs.  The write of the row may fail; the except clause
\* swallows it.
Middleware ==
    /\ req # Null
    /\ \E e \in The(req).to :
          /\ resp[e] = Null
          /\ IF ~The(req).utf8
             THEN /\ resp' = [resp EXCEPT ![e] =
                                 Some([status |-> 500, admitted |-> FALSE, before |-> perms,
                                       view |-> Null, write_failed |-> FALSE,
                                       log_before |-> log])]
                  /\ UNCHANGED <<perms, log>>
             ELSE \E out \in get_response(The(req)), written \in BOOLEAN :
                      /\ perms' = out.perms
                      /\ log' = IF is_api_path(The(req).path) /\ written
                                THEN Append(log, APIAccessLog(The(req).path, out.status))
                                ELSE log
                      /\ resp' = [resp EXCEPT ![e] =
                                     Some([status |-> out.status, admitted |-> out.admitted,
                                           before |-> perms, view |-> Some(out.status),
                                           write_failed |-> is_api_path(The(req).path) /\ ~written,
                                           log_before |-> log])]
    /\ UNCHANGED <<lake, tables, dbUp, req, clock, scan, consumer>>

ReceiveHttp ==
    /\ req = Null
    /\ Len(log) < MaxLog
    /\ \E user \in Callers, path \in Paths, utf8 \in BOOLEAN :
          req' = Some(HttpRequest(user, path, utf8,
                     IF path \in {GrantPath, RevokePath}
                     THEN PermissionData(Some("alice"), Some("transactions"), Some("read"))
                     ELSE NoData))
    /\ UNCHANGED <<lake, tables, dbUp, resp, clock, scan, perms, log, consumer>>

NextLog ==
    \/ ReceiveHttp
    \/ Middleware
    \/ Done

SpecLog == InitApi /\ [][NextLog]_vars

\* The response of the request being served.
HttpAnswered == req # Null /\ \A e \in The(req).to : resp[e] # Null
HttpAnswer == The(resp[CHOOSE e \in The(req).to : TRUE])

\* C26: for every request whose path starts with /transactions/ or /auth/
\* the middleware creates exactly one APIAccessLog row, carrying the status
\* of the response that is returned, unless the write of the row fails; for
\* any other path it creates none; a failed write creates no row and leaves
\* the response as the view gave it.
C26_OneLogRowPerApiRequest ==
    HttpAnswered =>
        LET r == HttpAnswer
            path == The(req).path
            api == \/ (Len(path) >= 3 /\ SubSeq(path, 1, 3) = <<"/", "transactions", "/">>)
                   \/ (Len(path) >= 3 /\ SubSeq(path, 1, 3) = <<"/", "auth", "/">>)
        IN  /\ (api /\ ~r.write_failed) =>
                  log = Append(r.log_before, [path |-> path, response_status |-> r.status])
            /\ ~api => log = r.log_before
            /\ r.write_failed => log = r.log_before /\ r.view = Some(r.status)

\* ------------------------------------------------------ the Kafka consumer

\* How many messages the topic holds in the runs, and the largest
\* batch_size the consumer is started with.
MaxMessages == 4
MaxBatch == 2

\* What the value of a message may be: a JSON document, empty (None or ''),
\* or text that is no JSON.
MessageKinds == {"json", "empty", "bad"}

\* The local variables of consume_kafka_to_parquet, the messages of the
\* topic, how far the iterator has come, and the files written:
\*   pc              where the process is: "poll" (for message in
\*                   consumer), "save" (line 38), "reset" (line 39),
\*                   "incr" (line 40), "finally" (lines 47-52), "stopped"
\*   batches         the files written, each with the file_counter of its
\*                   name and the messages it holds
\*   consumed        (history) the messages the iterator has handed out
Consumer(pc, batch_size, topic, position, transactions, file_counter, total_messages, batches, consumed) ==
    [pc |-> pc, batch_size |-> batch_size, topic |-> topic, position |-> position,
     transactions |-> transactions, file_counter |-> file_counter,
     total_messages |-> total_messages, batches |-> batches, consumed |-> consumed]

\* The state of the other components while the consumer runs alone.
NoApi ==
    /\ lake = [f \in Folders |-> Null]
    /\ tables = [t \in TableNames |-> Null]
    /\ dbUp = FALSE
    /\ req = Null
    /\ resp = NoResponses
    /\ clock = 0
    /\ scan = Null
    /\ perms = {}
    /\ log = <<>>

\* transactions = [], file_counter = 1, total_messages = 0
InitConsumer ==
    /\ NoApi
    /\ \E topic \in [1 .. MaxMessages -> MessageKinds], batch_size \in 1 .. MaxBatch :
          consumer = Some(Consumer("poll", batch_size, topic, 1, <<>>, 1, 0, <<>>, <<>>))

apart == <<lake, tables, dbUp, req, resp, clock, scan, perms, log>>

\* df.to_parquet(filename): the files there are after a batch is written.
\* The name of the file holds the topic, the file counter and the second of
\* the clock, so a batch written in the same second under the same counter
\* replaces the earlier file.
written(batches, file_counter, transactions) ==
    LET file == [file_counter |-> file_counter, messages |-> transactions]
    IN  {Append(batches, file)}
        \cup {[batches EXCEPT ![b] = file] :
                 b \in {x \in DOMAIN batches : batches[x].file_counter = file_counter}}

\* One turn of `for message in consumer` up to the test of line 37: a
\* message without value is passed over; json.loads raises on a value that
\* is no JSON, which ends the loop through `finally`.
Poll ==
    /\ consumer # Null
    /\ LET c == The(consumer) IN
       /\ c.pc = "poll"
       /\ c.position <= Len(c.topic)
       /\ LET message == c.position
              kind == c.topic[message]
              seen == [c EXCEPT !.position = @ + 1, !.consumed = Append(@, message)]
          IN  consumer' = Some(
                  IF kind = "empty" THEN seen
                  ELSE IF kind = "bad" THEN [seen EXCEPT !.pc = "finally"]
                  ELSE [seen EXCEPT
                           !.transactions = Append(@, message),
                           !.total_messages = @ + 1,
                           !.pc = IF Len(c.transactions) + 1 >= c.batch_size
                                  THEN "save" ELSE "poll"])
    /\ UNCHANGED apart

\* save_parquet_batch(transactions, output_directory, topic_name,
\* file_counter) at line 38: the file is written, or the call raises
\* (pd.to_datetime on a TIMESTAMP that is no date, a missing topic folder).
SaveBatch ==
    /\ consumer # Null
    /\ LET c == The(consumer) IN
       /\ c.pc = "save"
       /\ \/ \E files \in written(c.batches, c.file_counter, c.transactions) :
                consumer' = Some([c EXCEPT !.batches = files, !.pc = "reset"])
          \/ consumer' = Some([c EXCEPT !.pc = "finally"])
    /\ UNCHANGED apart

\* transactions = []
ResetBuffer ==
    /\ consumer # Null
    /\ The(consumer).pc = "reset"
    /\ consumer' = Some([The(consumer) EXCEPT !.transactions = <<>>, !.pc = "incr"])
    /\ UNCHANGED apart

\* file_counter += 1
IncrementCounter ==
    /\ consumer # Null
    /\ The(consumer).pc = "incr"
    /\ consumer' = Some([The(consumer) EXCEPT !.file_counter = @ + 1, !.pc = "poll"])
    /\ UNCHANGED apart

\* KeyboardInterrupt, raised wherever the loop is.
Interrupt ==
    /\ consumer # Null
    /\ The(consumer).pc \in {"poll", "save", "reset", "incr"}
    /\ consumer' = Some([The(consumer) EXCEPT !.pc = "finally"])
    /\ UNCHANGED apart

\* finally: consumer.close(); if transactions: save_parquet_batch(...),
\* which writes the file or raises.
Finally ==
    /\ consumer # Null
    /\ LET c == The(consumer) IN
       /\ c.pc = "finally"
       /\ IF c.transactions = <<>>
          THEN consumer' = Some([c EXCEPT !.pc = "stopped"])
          ELSE \/ \E files \in written(c.batches, c.file_counter, c.transactions) :
                     consumer' = Some([c EXCEPT !.batches = files, !.pc = "stopped"])
               \/ consumer' = Some([c EXCEPT !.pc = "stopped"])
    /\ UNCHANGED apart

NextConsumer ==
    \/ Poll
    \/ SaveBatch
    \/ ResetBuffer
    \/ IncrementCounter
    \/ Interrupt
    \/ Finally

SpecConsumer == InitConsumer /\ [][NextConsumer]_vars

\* The batches that hold a message.
BatchesOf(message) ==
    {b \in DOMAIN The(consumer).batches : message \in Range(The(consumer).batches[b].messages)}

\* C27: no batch holds more than batch_size messages and no two batches
\* share a file counter; the buffer never waits with batch_size messages,
\* and after a save it is emptied and the counter incremented; no message is
\* in two batches, and once consumption has stopped every consumed message
\* with a non-empty value is in exactly one batch.
C27_EveryMessageInOneBatch ==
    LET c == The(consumer) IN
    /\ \A b \in DOMAIN c.batches : Len(c.batches[b].messages) <= c.batch_size
    /\ \A a, b \in DOMAIN c.batches :
          a # b => c.batches[a].file_counter # c.batches[b].file_counter
    /\ c.pc = "poll" =>
          /\ Len(c.transactions) < c.batch_size
          /\ c.file_counter = Len(c.batches) + 1
    /\ \A message \in Range(c.consumed) : Cardinality(BatchesOf(message)) <= 1
    /\ c.pc = "stopped" =>
          \A message \in Range(c.consumed) :
              c.topic[message] # "empty" => Cardinality(BatchesOf(message)) = 1

====
